---- MODULE Spec2Model ----
(***************************************************************************)
(* Gargantua chess engine core: bitboard position, leaper attack tables,   *)
(* attack query, move encoding, makeMove / undoMove and the                *)
(* saveBoard / takeBack snapshot, driven by a caller that makes, undoes    *)
(* and takes back moves the way perft does.                                *)
(*                                                                         *)
(* A Bitboard (64-bit word) is modelled as the set of its set bits, a      *)
(* subset of 0..63; a shift moves every element and drops what leaves      *)
(* 0..63; AND / OR / AND-NOT are intersection / union / difference.        *)
(***************************************************************************)
EXTENDS Integers, Sequences, FiniteSets, TLC

(***************************************************************************)
(* Bounds of the model.                                                    *)
(***************************************************************************)
\* deepest nesting of made-and-not-yet-reverted moves the caller reaches
MaxPly == 2
\* StateInfo entries the caller has chained before it starts making moves
MaxStates == 2
\* number of calls the caller makes in one run
MaxCalls == 3

(***************************************************************************)
(* Enumerations (definitions.h is not part of the sources; the values are  *)
(* the ones the specification and the tables of movgen.h fix).             *)
(***************************************************************************)
White == 0
Black == 1
Both == 2

P == 0
N == 1
B == 2
R == 3
Q == 4
K == 5
p == 6
n == 7
b == 8
r == 9
q == 10
k == 11
NoPiece == 12

a8 == 0
b8 == 1
c8 == 2
d8 == 3
e8 == 4
f8 == 5
g8 == 6
h8 == 7
a1 == 56
b1 == 57
c1 == 58
d1 == 59
e1 == 60
f1 == 61
g1 == 62
h1 == 63
NoSq == 64

\* enum MoveType { AllMoves, CaptureMoves }
AllMoves == 0
CaptureMoves == 1

\* the null StateInfo pointer
NULL == 0

Squares == 0 .. 63
Pieces == 0 .. 11

(***************************************************************************)
(* Bit utilities.                                                          *)
(***************************************************************************)
getBit(bb, pos) == IF pos \in bb THEN 1 ELSE 0

setBit(bb, pos) == bb \cup {pos}

popBit(bb, pos) == bb \ {pos}

\* bb << cnt and bb >> cnt on a 64-bit word
ShiftLeft(bb, cnt) == {sq + cnt : sq \in bb} \cap Squares

ShiftRight(bb, cnt) == {sq - cnt : sq \in bb} \cap Squares

\* the limbs of a bitboard: bit sq of the number is square sq of the set
RECURSIVE LimbOf(_, _, _)
LimbOf(bb, limb, bit) ==
    IF bit = 13 THEN 0
    ELSE (IF 13 * limb + bit \in bb THEN 1 ELSE 0) + 2 * LimbOf(bb, limb, bit + 1)

Limbs(bb) == [limb \in 0 .. 4 |-> LimbOf(bb, limb, 0)]

\* the top 12 bits (bits 52 to 63) of the product a * m modulo 2^64, by
\* long multiplication: the column sums with their carries up to the limb
\* that starts at bit 52
MulHigh12(a, m) ==
    LET carry0 == (a[0] * m[1]) \div 8192
        carry1 == (a[0] * m[2] + a[1] * m[1] + carry0) \div 8192
        carry2 == (a[0] * m[3] + a[1] * m[2] + a[2] * m[1] + carry1) \div 8192
        carry3 == (a[0] * m[4] + a[1] * m[3] + a[2] * m[2] + a[3] * m[1] + carry2) \div 8192
        column4 == a[0] * m[5] + a[1] * m[4] + a[2] * m[3] + a[3] * m[2] + a[4] * m[1] + carry3
    IN (column4 % 8192) % 4096

\* bb + 1 modulo 2^64, the carry running up from the given bit
RECURSIVE Increment(_, _)
Increment(bb, bit) ==
    IF bit = 64 THEN bb
    ELSE IF bit \in bb THEN Increment(bb \ {bit}, bit + 1)
    ELSE bb \cup {bit}

\* -bb on 64-bit unsigned numbers: ~bb + 1
Negate(bb) == Increment(Squares \ bb, 0)

\* static constexpr int INDEX64[64]
INDEX64 ==
    <<63,  0, 58,  1, 59, 47, 53,  2,
      60, 39, 48, 27, 54, 33, 42,  3,
      61, 51, 37, 40, 49, 18, 28, 20,
      55, 30, 34, 11, 43, 14, 22,  4,
      62, 57, 46, 52, 38, 26, 32, 41,
      50, 36, 17, 19, 29, 10, 13, 21,
      56, 45, 25, 31, 35, 16,  9, 12,
      44, 24, 15,  8, 23,  7,  6,  5>>

\* 0x07EDD5E59A4E28C2, least significant limb first
DEBRUIJN64 == <<2242, 4721, 6502, 7083, 126>>

\* faulty variant of ls1b: the lowest bit is not isolated before the
\* multiplication
ls1b_NoIsolate(bb) == INDEX64[MulHigh12(Limbs(bb), DEBRUIJN64) \div 64 + 1]

\* ls1b: INDEX64[((bb & -bb) * DEBRUIJN64) >> 58]; for bb = 0 this reads
\* INDEX64[0], which is 63
ls1b(bb) == INDEX64[MulHigh12(Limbs(bb \cap Negate(bb)), DEBRUIJN64) \div 64 + 1]

\* a & c on small non-negative integers (the castling-rights nibble)
RECURSIVE BitAnd(_, _)
BitAnd(x, y) ==
    IF x = 0 \/ y = 0 THEN 0
    ELSE (IF x % 2 = 1 /\ y % 2 = 1 THEN 1 ELSE 0) + 2 * BitAnd(x \div 2, y \div 2)

(***************************************************************************)
(* File masks and leaper attack tables (bitboard.h, bitboard.cpp).         *)
(***************************************************************************)
NotFileA_Mask == {sq \in Squares : sq % 8 # 0}
NotFileH_Mask == {sq \in Squares : sq % 8 # 7}
NotFileHG_Mask == {sq \in Squares : sq % 8 \notin {6, 7}}
NotFileAB_Mask == {sq \in Squares : sq % 8 \notin {0, 1}}

\* if (x & mask) attacks |= x;  with x a shifted single-bit board
AddIf(x, mask) == IF x \cap mask # {} THEN x ELSE {}

maskPawnAttacks(side, square) ==
    LET bb == setBit({}, square) IN
    IF side = White
    THEN AddIf(ShiftRight(bb, 7), NotFileA_Mask) \cup AddIf(ShiftRight(bb, 9), NotFileH_Mask)
    ELSE AddIf(ShiftLeft(bb, 7), NotFileH_Mask) \cup AddIf(ShiftLeft(bb, 9), NotFileA_Mask)

\* faulty variant of maskKnightAttacks: the jump bb >> 17 is left out
maskKnightAttacks_NoJump(square) ==
    LET bb == setBit({}, square) IN
    AddIf(ShiftRight(bb, 15), NotFileA_Mask)
    \cup AddIf(ShiftRight(bb, 10), NotFileHG_Mask) \cup AddIf(ShiftRight(bb, 6), NotFileAB_Mask)
    \cup AddIf(ShiftLeft(bb, 17), NotFileA_Mask) \cup AddIf(ShiftLeft(bb, 15), NotFileH_Mask)
    \cup AddIf(ShiftLeft(bb, 10), NotFileAB_Mask) \cup AddIf(ShiftLeft(bb, 6), NotFileHG_Mask)

maskKnightAttacks(square) ==
    LET bb == setBit({}, square) IN
    AddIf(ShiftRight(bb, 17), NotFileH_Mask) \cup AddIf(ShiftRight(bb, 15), NotFileA_Mask)
    \cup AddIf(ShiftRight(bb, 10), NotFileHG_Mask) \cup AddIf(ShiftRight(bb, 6), NotFileAB_Mask)
    \cup AddIf(ShiftLeft(bb, 17), NotFileA_Mask) \cup AddIf(ShiftLeft(bb, 15), NotFileH_Mask)
    \cup AddIf(ShiftLeft(bb, 10), NotFileAB_Mask) \cup AddIf(ShiftLeft(bb, 6), NotFileHG_Mask)

\* faulty variant of maskKingAttacks: the steps to the side are not masked
maskKingAttacks_NoFileMask(square) ==
    LET bb == setBit({}, square) IN
    ShiftRight(bb, 8) \cup AddIf(ShiftRight(bb, 9), NotFileH_Mask)
    \cup AddIf(ShiftRight(bb, 7), NotFileA_Mask) \cup ShiftRight(bb, 1)
    \cup ShiftLeft(bb, 8) \cup AddIf(ShiftLeft(bb, 9), NotFileA_Mask)
    \cup AddIf(ShiftLeft(bb, 7), NotFileH_Mask) \cup ShiftLeft(bb, 1)

maskKingAttacks(square) ==
    LET bb == setBit({}, square) IN
    ShiftRight(bb, 8) \cup AddIf(ShiftRight(bb, 9), NotFileH_Mask)
    \cup AddIf(ShiftRight(bb, 7), NotFileA_Mask) \cup AddIf(ShiftRight(bb, 1), NotFileH_Mask)
    \cup ShiftLeft(bb, 8) \cup AddIf(ShiftLeft(bb, 9), NotFileA_Mask)
    \cup AddIf(ShiftLeft(bb, 7), NotFileH_Mask) \cup AddIf(ShiftLeft(bb, 1), NotFileA_Mask)

\* initLeaperAttacks fills the three tables once
PawnAttacks == [side \in {White, Black} |-> [square \in Squares |-> maskPawnAttacks(side, square)]]
KnightAttacks == [square \in Squares |-> maskKnightAttacks(square)]
KingAttacks == [square \in Squares |-> maskKingAttacks(square)]

(***************************************************************************)
(* Slider attacks.  The magic lookup tables are built outside the given    *)
(* sources; the lookup is modelled by the ray cast it reproduces: along    *)
(* each ray up to and including the first occupied square.                 *)
(***************************************************************************)
BishopDirs == {<<1, 1>>, <<1, -1>>, <<-1, 1>>, <<-1, -1>>}
RookDirs == {<<1, 0>>, <<-1, 0>>, <<0, 1>>, <<0, -1>>}

OnBoard(file, row) == file \in 0 .. 7 /\ row \in 0 .. 7

\* squares of the ray leaving `square` in direction dir, nearest first
RayTable ==
    [square \in Squares |-> [dir \in BishopDirs \cup RookDirs |->
        LET file == square % 8
            row == square \div 8
            len == CHOOSE c \in 0 .. 7 :
                       /\ \A i \in 1 .. c : OnBoard(file + i * dir[1], row + i * dir[2])
                       /\ ~OnBoard(file + (c + 1) * dir[1], row + (c + 1) * dir[2])
        IN [i \in 1 .. len |-> (row + i * dir[2]) * 8 + file + i * dir[1]]]]

RayAttacks(square, dir, occupancy) ==
    LET ray == RayTable[square][dir]
        hits == {i \in DOMAIN ray : ray[i] \in occupancy}
        stop == IF hits = {} THEN Cardinality(DOMAIN ray)
                ELSE CHOOSE i \in hits : \A j \in hits : i <= j
    IN {ray[i] : i \in 1 .. stop}

getBishopAttacks(square, occupancy) ==
    UNION {RayAttacks(square, dir, occupancy) : dir \in BishopDirs}

getRookAttacks(square, occupancy) ==
    UNION {RayAttacks(square, dir, occupancy) : dir \in RookDirs}

getQueenAttacks(square, occupancy) ==
    getBishopAttacks(square, occupancy) \cup getRookAttacks(square, occupancy)

(***************************************************************************)
(* Magic numbers and relevant-bit counts (bitboard.h).  A 64-bit number is  *)
(* held as five limbs of 13 bits, least significant first (the number is   *)
(* the sum of limb[j] * 8192^j), so that every product and column sum of   *)
(* a multiplication stays below 2^31.                                      *)
(***************************************************************************)

BishopRelevantBits ==
    <<6, 5, 5, 5, 5, 5, 5, 6,
      5, 5, 5, 5, 5, 5, 5, 5,
      5, 5, 7, 7, 7, 7, 5, 5,
      5, 5, 7, 9, 9, 7, 5, 5,
      5, 5, 7, 9, 9, 7, 5, 5,
      5, 5, 7, 7, 7, 7, 5, 5,
      5, 5, 5, 5, 5, 5, 5, 5,
      6, 5, 5, 5, 5, 5, 5, 6>>

\* faulty variant of RookRelevantBits: the counts of the bishop table
RookRelevantBits_FromBishop == BishopRelevantBits

RookRelevantBits ==
    <<12, 11, 11, 11, 11, 11, 11, 12,
      11, 10, 10, 10, 10, 10, 10, 11,
      11, 10, 10, 10, 10, 10, 10, 11,
      11, 10, 10, 10, 10, 10, 10, 11,
      11, 10, 10, 10, 10, 10, 10, 11,
      11, 10, 10, 10, 10, 10, 10, 11,
      11, 10, 10, 10, 10, 10, 10, 11,
      12, 11, 11, 11, 11, 11, 11, 12>>

RookMagicNumbers ==
    <<<<32, 1024, 4096, 32, 2216>>,  \* 0x8a80104000800020
      <<64, 128, 2048, 0, 20>>,  \* 0x140002000100040
      <<4097, 11, 40, 49, 40>>,  \* 0x2801880a0017001
      <<1056, 2048, 1024, 16, 16>>,  \* 0x100081001000420
      <<1056, 64, 4, 4, 32>>,  \* 0x200020010080420
      <<8, 4104, 0, 56, 48>>,  \* 0x3001c0002010008
      <<256, 4096, 0, 1, 2120>>,  \* 0x8480008002000100
      <<2304, 513, 1, 17, 520>>,  \* 0x2080088004402900
      <<0, 258, 38, 256, 0>>,  \* 0x800098204000
      <<64, 256, 1024, 2176, 514>>,  \* 0x2024401000200040
      <<4096, 1024, 2048, 256, 16>>,  \* 0x100802000801000
      <<4096, 1024, 512, 256, 18>>,  \* 0x120800800801000
      <<1024, 0, 34, 4353, 32>>,  \* 0x208808088000400
      <<1024, 1024, 2176, 1280, 0>>,  \* 0x2802200800400
      <<128, 16, 64, 256, 544>>,  \* 0x2200800100020080
      <<4352, 1040, 24, 512, 128>>,  \* 0x801000060821100
      <<0, 4625, 4097, 8, 8>>,  \* 0x80044006422000
      <<0, 2, 8, 257, 16>>,  \* 0x100808020004000
      <<512, 258, 4, 276, 289>>,  \* 0x12108a0010204200
      <<2050, 0, 4, 265, 20>>,  \* 0x140848010000802
      <<2048, 1, 5, 773, 72>>,  \* 0x481828014002800
      <<256, 4098, 4096, 2048, 2057>>,  \* 0x8094004002004100
      <<2050, 8, 4, 8, 1025>>,  \* 0x4010040010010802
      <<260, 1027, 2, 4, 0>>,  \* 0x20008806104
      <<0, 260, 32, 128, 16>>,  \* 0x100400080208000
      <<4096, 64, 2120, 0, 516>>,  \* 0x2040002120081000
      <<129, 128, 416, 576, 2>>,  \* 0x21200680100081
      <<128, 64, 32, 32, 2>>,  \* 0x20100080080080
      <<1040, 256, 640, 1024, 0>>,  \* 0x2000a00200410
      <<1024, 1024, 32, 4, 0>>,  \* 0x20080800400
      <<258, 128, 256, 17, 8>>,  \* 0x80088400100102
      <<2177, 33, 4480, 0, 8>>,  \* 0x80004600042881
      <<32, 1024, 16, 1, 1028>>,  \* 0x4040008040800020
      <<2049, 256, 3072, 0, 68>>,  \* 0x440003000200801
      <<1280, 2050, 4, 2112, 0>>,  \* 0x4200011004500
      <<256, 128, 4, 4100, 24>>,  \* 0x188020010100100
      <<2048, 3073, 256, 2304, 1>>,  \* 0x14800401802800
      <<512, 1024, 32, 8, 520>>,  \* 0x2080040080800200
      <<4097, 0, 129, 2064, 18>>,  \* 0x124080204001001
      <<1156, 4096, 6464, 8, 32>>,  \* 0x200046502000484
      <<32, 68, 32, 128, 72>>,  \* 0x480400080088020
      <<0, 26, 2052, 132, 256>>,  \* 0x1000422010034000
      <<64, 136, 64, 64, 3>>,  \* 0x30200100110040
      <<9, 2056, 8, 32, 0>>,  \* 0x100021010009
      <<4, 136, 64, 1040, 512>>,  \* 0x2002080100110004
      <<2, 4, 1, 1025, 32>>,  \* 0x202008004008002
      <<256, 8, 1, 4, 2>>,  \* 0x20020004010100
      <<1, 1040, 16, 4232, 516>>,  \* 0x2048440040820001
      <<512, 516, 2176, 512, 16>>,  \* 0x101002200408200
      <<4224, 512, 2048, 256, 4>>,  \* 0x40802000401080
      <<256, 520, 2049, 4136, 1024>>,  \* 0x4008142004410100
      <<512, 144, 2096, 3088, 32>>,  \* 0x2060820c0120200
      <<256, 64, 1025, 512, 0>>,  \* 0x1001004080100
      <<128, 32, 32, 6148, 32>>,  \* 0x20c020080040080
      <<1024, 17, 524, 2754, 659>>,  \* 0x2935610830022400
      <<4608, 2052, 16, 2184, 4>>,  \* 0x44440041009200
      <<257, 1025, 1040, 0, 40>>,  \* 0x280001040802101
      <<133, 1, 16, 50, 528>>,  \* 0x2100190040002085
      <<1, 129, 4160, 16, 2060>>,  \* 0x80c0084100102001
      <<1057, 2048, 1024, 2064, 1026>>,  \* 0x4024081001000421
      <<2162, 290, 3112, 1024, 0>>,  \* 0x20030a0244872
      <<1026, 522, 1026, 1024, 1>>,  \* 0x12001008414402
      <<2052, 80, 292, 194, 32>>,  \* 0x2006104900a0804
      <<1026, 2049, 4128, 512, 0>>>>  \* 0x1004081002402

BishopMagicNumbers ==
    <<<<132, 514, 529, 8, 4>>,  \* 0x40040844404084
      <<520, 4098, 2082, 8, 2>>,  \* 0x2004208a004208
      <<514, 2112, 16, 50, 1>>,  \* 0x10190041080202
      <<16, 2081, 529, 4108, 16>>,  \* 0x108060845042010
      <<528, 1024, 4192, 544, 88>>,  \* 0x581104180800210
      <<16, 4352, 273, 1040, 529>>,  \* 0x2112080446200010
      <<528, 48, 520, 260, 264>>,  \* 0x1080820820060210
      <<512, 272, 260, 257, 60>>,  \* 0x3c0808410220200
      <<1028, 544, 257, 2058, 0>>,  \* 0x4050404440404
      <<136, 2576, 1024, 4, 0>>,  \* 0x21001420088
      <<258, 2113, 512, 16, 589>>,  \* 0x24d0080801082102
      <<1024, 4112, 642, 516, 0>>,  \* 0x1020a0a020400
      <<1026, 256, 194, 8, 0>>,  \* 0x40308200402
      <<2048, 4224, 1024, 2050, 0>>,  \* 0x4011002100800
      <<5, 130, 4161, 656, 64>>,  \* 0x401484104104005
      <<512, 4112, 256, 514, 128>>,  \* 0x801010402020200
      <<256, 7232, 1072, 4, 4>>,  \* 0x400210c3880100
      <<512, 132, 2057, 2052, 64>>,  \* 0x404022024108200
      <<258, 258, 128, 3, 129>>,  \* 0x810018200204102
      <<3, 3329, 2560, 2048, 0>>,  \* 0x4002801a02003
      <<1024, 64, 520, 2568, 8>>,  \* 0x85040820080400
      <<1024, 1088, 4610, 517, 2064>>,  \* 0x810102c808880400
      <<2048, 1090, 260, 7456, 0>>,  \* 0xe900410884800
      <<258, 1056, 288, 1028, 2048>>,  \* 0x8002020480840102
      <<513, 2120, 537, 64, 34>>,  \* 0x220200865090201
      <<4610, 4112, 640, 32, 513>>,  \* 0x2010100a02021202
      <<1025, 17, 258, 1033, 21>>,  \* 0x152048408022401
      <<4368, 4160, 0, 16, 2>>,  \* 0x20080002081110
      <<0, 2050, 1032, 512, 1024>>,  \* 0x4001001021004000
      <<4098, 4104, 4098, 128, 2048>>,  \* 0x800040400a011002
      <<4098, 2056, 4128, 2048, 14>>,  \* 0xe4004081011002
      <<128, 2057, 4096, 6144, 1>>,  \* 0x1c004001012080
      <<544, 5376, 600, 2112, 2048>>,  \* 0x8004200962a00220
      <<514, 640, 130, 1056, 2114>>,  \* 0x8422100208500202
      <<3080, 384, 2176, 128, 512>>,  \* 0x2000402200300c08
      <<128, 64, 32, 3076, 2148>>,  \* 0x8646020080080080
      <<2056, 128, 128, 1044, 2048>>,  \* 0x80020a0200100808
      <<4096, 136, 4640, 0, 513>>,  \* 0x2010004880111000
      <<5120, 8, 2080, 1, 1571>>,  \* 0x623000a080011400
      <<4610, 260, 208, 280, 1056>>,  \* 0x42008c0340209202
      <<4096, 0, 144, 4657, 32>>,  \* 0x209188240001000
      <<6144, 0, 2593, 2065, 1024>>,  \* 0x400408a884001800
      <<1024, 4160, 41, 520, 1>>,  \* 0x110400a6080400
      <<2048, 16, 657, 12, 388>>,  \* 0x1840060a44020800
      <<65, 0, 65, 16, 9>>,  \* 0x90080104000041
      <<257, 1028, 1024, 514, 32>>,  \* 0x201011000808101
      <<4224, 2087, 513, 1040, 418>>,  \* 0x1a2208080504f080
      <<4626, 264, 384, 1028, 2049>>,  \* 0x8012020600211212
      <<0, 2336, 1028, 268, 80>>,  \* 0x500861011240000
      <<2048, 256, 6210, 256, 24>>,  \* 0x180806108200800
      <<68, 2080, 896, 4, 1024>>,  \* 0x4000020e01040044
      <<10, 544, 2436, 0, 768>>,  \* 0x300000261044000a
      <<2, 4112, 1088, 1096, 128>>,  \* 0x802241102020002
      <<1, 2312, 6168, 288, 2>>,  \* 0x20906061210001
      <<784, 8, 1025, 2312, 1448>>,  \* 0x5a84841004010310
      <<7172, 2056, 512, 2050, 0>>,  \* 0x4010801011c04
      <<512, 2689, 66, 5122, 0>>,  \* 0xa010109502200
      <<0, 4105, 4736, 0, 0>>,  \* 0x4a02012000
      <<4136, 1221, 64, 1026, 1280>>,  \* 0x500201010098b028
      <<2304, 2080, 2564, 0, 2052>>,  \* 0x8040002811040900
      <<516, 16, 4, 4096, 2>>,  \* 0x28000010020204
      <<576, 360, 2056, 0, 96>>,  \* 0x6000020202d0240
      <<512, 4161, 4624, 4360, 2193>>,  \* 0x8918844842082200
      <<32, 2064, 1034, 2, 1025>>>>  \* 0x4010011029020020

\* 2^n for the table sizes
RECURSIVE Pow2(_)
Pow2(exponent) == IF exponent = 0 THEN 1 ELSE 2 * Pow2(exponent - 1)

\* (occupancy * magic) >> (64 - relevant_bits) on 64-bit unsigned numbers
MagicIndex(occupancy, magicNumber, relevantBits) ==
    MulHigh12(Limbs(occupancy), magicNumber) \div Pow2(12 - relevantBits)

\* the relevant-occupancy masks: the squares of the slider's rays without
\* the last square of each ray
MaskRay(square, dir) ==
    LET ray == RayTable[square][dir] IN {ray[i] : i \in 1 .. Len(ray) - 1}

maskBishopAttacks(square) == UNION {MaskRay(square, dir) : dir \in BishopDirs}

maskRookAttacks(square) == UNION {MaskRay(square, dir) : dir \in RookDirs}

\* what the table of one kind of slider is made from
SliderMask(kind, square) ==
    IF kind = "rook" THEN maskRookAttacks(square) ELSE maskBishopAttacks(square)

SliderBits(kind, square) ==
    IF kind = "rook" THEN RookRelevantBits[square + 1] ELSE BishopRelevantBits[square + 1]

SliderMagic(kind, square) ==
    IF kind = "rook" THEN RookMagicNumbers[square + 1] ELSE BishopMagicNumbers[square + 1]

SliderRayCast(kind, square, occupancy) ==
    IF kind = "rook" THEN getRookAttacks(square, occupancy)
    ELSE getBishopAttacks(square, occupancy)

\* the index the lookup computes for a board occupancy
SliderIndex(kind, square, occupancy) ==
    MagicIndex(occupancy \cap SliderMask(kind, square), SliderMagic(kind, square),
               SliderBits(kind, square))

(***************************************************************************)
(* Move encoding (movgen.h): a packed 24-bit integer.                      *)
(***************************************************************************)
\* the fields are OR-ed together; for fields within their widths the OR of
\* the shifted fields is their sum
encodeMove(fromSq, toSq, piece, promo, capture, double, ep, castling) ==
    fromSq + toSq * 64 + piece * 4096 + promo * 65536 + capture * 1048576
    + double * 2097152 + ep * 4194304 + castling * 8388608

getMoveSource(move) == move % 64

getMoveTarget(move) == (move \div 64) % 64

getMovePiece(move) == (move \div 4096) % 16

\* faulty variant of getPromo: the mask 0x70000 is written for 0xf0000
getPromo_ThreeBits(move) == (move \div 65536) % 8

getPromo(move) == (move \div 65536) % 16

\* move & 0x100000: zero, or the flag's own bit
getMoveCapture(move) == ((move \div 1048576) % 2) * 1048576

getDoublePush(move) == ((move \div 2097152) % 2) * 2097152

getEp(move) == ((move \div 4194304) % 2) * 4194304

getCastle(move) == ((move \div 8388608) % 2) * 8388608

\* castling-rights update constants, indexed by square (a8 = 0 .. h1 = 63)
CastlingRights ==
    [sq \in Squares |->
        CASE sq = 0 -> 7
          [] sq = 4 -> 3
          [] sq = 7 -> 11
          [] sq = 56 -> 13
          [] sq = 60 -> 12
          [] sq = 63 -> 14
          [] OTHER -> 15]

(***************************************************************************)
(* The position: the globals bitboards[12], occupancies[3], sideToMove,    *)
(* epsq, castle, and the StateInfo chain reached through the pointer st.   *)
(* Operations are operators from a position record to a position record.   *)
(*                                                                         *)
(* StateInfo entries live in the sequence `states`; the pointer st is an   *)
(* index into it (NULL = 0) and the `previous` link of entry i is i - 1,   *)
(* so the oldest entry's previous is NULL.                                 *)
(***************************************************************************)
Opponent(side) == IF side = White THEN Black ELSE White

\* faulty variant of isSquareAttacked: the pawn table of the attacking side
\* is read, so that pawns attack backwards
isSquareAttacked_OwnPawnTable(pos, square, side) ==
    \/ side = White /\ PawnAttacks[White][square] \cap pos.bitboards[P] # {}
    \/ side = Black /\ PawnAttacks[Black][square] \cap pos.bitboards[p] # {}
    \/ KnightAttacks[square] \cap (IF side = White THEN pos.bitboards[N] ELSE pos.bitboards[n]) # {}
    \/ getBishopAttacks(square, pos.occupancies[Both])
           \cap (IF side = White THEN pos.bitboards[B] ELSE pos.bitboards[b]) # {}
    \/ getRookAttacks(square, pos.occupancies[Both])
           \cap (IF side = White THEN pos.bitboards[R] ELSE pos.bitboards[r]) # {}
    \/ getQueenAttacks(square, pos.occupancies[Both])
           \cap (IF side = White THEN pos.bitboards[Q] ELSE pos.bitboards[q]) # {}
    \/ KingAttacks[square] \cap (IF side = White THEN pos.bitboards[K] ELSE pos.bitboards[k]) # {}

\* isSquareAttacked(square, side): is `square` attacked by a piece of `side`
isSquareAttacked(pos, square, side) ==
    \/ side = White /\ PawnAttacks[Black][square] \cap pos.bitboards[P] # {}
    \/ side = Black /\ PawnAttacks[White][square] \cap pos.bitboards[p] # {}
    \/ KnightAttacks[square] \cap (IF side = White THEN pos.bitboards[N] ELSE pos.bitboards[n]) # {}
    \/ getBishopAttacks(square, pos.occupancies[Both])
           \cap (IF side = White THEN pos.bitboards[B] ELSE pos.bitboards[b]) # {}
    \/ getRookAttacks(square, pos.occupancies[Both])
           \cap (IF side = White THEN pos.bitboards[R] ELSE pos.bitboards[r]) # {}
    \/ getQueenAttacks(square, pos.occupancies[Both])
           \cap (IF side = White THEN pos.bitboards[Q] ELSE pos.bitboards[q]) # {}
    \/ KingAttacks[square] \cap (IF side = White THEN pos.bitboards[K] ELSE pos.bitboards[k]) # {}

\* popBit(bitboards[piece], square) and setBit(bitboards[piece], square)
PopPiece(pos, piece, square) ==
    [pos EXCEPT !.bitboards[piece] = popBit(@, square)]

SetPiece(pos, piece, square) ==
    [pos EXCEPT !.bitboards[piece] = setBit(@, square)]

\* popBit(occupancies[side], square) and setBit(occupancies[side], square)
PopOcc(pos, side, square) ==
    [pos EXCEPT !.occupancies[side] = popBit(@, square)]

SetOcc(pos, side, square) ==
    [pos EXCEPT !.occupancies[side] = setBit(@, square)]

(***************************************************************************)
(* makeMove(move, AllMoves), one operator per step of the function body.   *)
(***************************************************************************)
\* move the piece from source to target, in its bitboard and its side's occupancy
MakeMovePiece(pos, move) ==
    LET fromSq == getMoveSource(move)
        toSq == getMoveTarget(move)
        piece == getMovePiece(move)
    IN SetOcc(PopOcc(SetPiece(PopPiece(pos, piece, fromSq), piece, toSq),
                     pos.sideToMove, fromSq), pos.sideToMove, toSq)

\* if (capture): remove the first opponent piece found on the target square
\* and record it in st->capturedPiece
MakeCapture(pos, move) ==
    LET toSq == getMoveTarget(move)
        Them == Opponent(pos.sideToMove)
        start_piece == IF pos.sideToMove = White THEN p ELSE P
        end_piece == IF pos.sideToMove = White THEN k ELSE K
        found == {bb_piece \in start_piece .. end_piece :
                      getBit(pos.bitboards[bb_piece], toSq) = 1}
    IN IF getMoveCapture(move) = 0 \/ found = {} THEN pos
       ELSE LET bb_piece == CHOOSE pc \in found : \A other \in found : pc <= other
            IN [PopOcc(PopPiece(pos, bb_piece, toSq), Them, toSq)
                   EXCEPT !.states[pos.st].capturedPiece = bb_piece]

\* if (promo): erase the pawn from the target square, set the promoted piece
MakePromo(pos, move) ==
    LET toSq == getMoveTarget(move)
        promo == getPromo(move)
    IN IF promo = 0 THEN pos
       ELSE SetPiece(PopPiece(pos, IF pos.sideToMove = White THEN P ELSE p, toSq),
                     promo, toSq)

\* faulty variant of MakeEnPassant: the pawn is erased from its bitboard and
\* left in the occupancy of its side
MakeEnPassant_NoOccupancy(pos, move) ==
    LET toSq == getMoveTarget(move) IN
    IF getEp(move) = 0 THEN pos
    ELSE IF pos.sideToMove = White
         THEN PopPiece(PopPiece(pos, p, toSq + 8), p, toSq + 8)
         ELSE PopPiece(PopPiece(pos, P, toSq - 8), P, toSq - 8)

\* faulty variant of MakeEnPassant: the square ahead of the target is
\* cleared, toSq - 8 for White and toSq + 8 for Black
MakeEnPassant_Ahead(pos, move) ==
    LET toSq == getMoveTarget(move) IN
    IF getEp(move) = 0 THEN pos
    ELSE IF pos.sideToMove = White
         THEN PopOcc(PopPiece(PopPiece(pos, p, toSq - 8), p, toSq - 8), Black, toSq - 8)
         ELSE PopOcc(PopPiece(PopPiece(pos, P, toSq + 8), P, toSq + 8), White, toSq + 8)

\* if (ep): erase the opponent pawn behind the target square
MakeEnPassant(pos, move) ==
    LET toSq == getMoveTarget(move) IN
    IF getEp(move) = 0 THEN pos
    ELSE IF pos.sideToMove = White
         THEN PopOcc(PopPiece(PopPiece(pos, p, toSq + 8), p, toSq + 8), Black, toSq + 8)
         ELSE PopOcc(PopPiece(PopPiece(pos, P, toSq - 8), P, toSq - 8), White, toSq - 8)

\* faulty variant of MakeEpSquare: epsq is not reset before the double push
\* is looked at
MakeEpSquare_NoReset(pos, move) ==
    LET toSq == getMoveTarget(move) IN
    IF getDoublePush(move) = 0 THEN pos
    ELSE [pos EXCEPT !.epsq = IF pos.sideToMove = White THEN toSq + 8 ELSE toSq - 8]

\* epsq = NoSq; a double pawn push sets it to the square behind the target
MakeEpSquare(pos, move) ==
    LET toSq == getMoveTarget(move) IN
    IF getDoublePush(move) = 0 THEN [pos EXCEPT !.epsq = NoSq]
    ELSE [pos EXCEPT !.epsq = IF pos.sideToMove = White THEN toSq + 8 ELSE toSq - 8]

\* move the rook `rook` of `side` from fromSq to toSq (one case of the switch)
MoveRook(pos, rook, side, fromSq, toSq) ==
    SetOcc(PopOcc(SetPiece(PopPiece(pos, rook, fromSq), rook, toSq), side, fromSq), side, toSq)

\* if (castling): switch (toSq) over g1, c1, g8, c8
MakeCastling(pos, move) ==
    LET toSq == getMoveTarget(move) IN
    IF getCastle(move) = 0 THEN pos
    ELSE CASE toSq = g1 -> MoveRook(pos, R, White, h1, f1)
           [] toSq = c1 -> MoveRook(pos, R, White, a1, d1)
           [] toSq = g8 -> MoveRook(pos, r, Black, h8, f8)
           [] toSq = c8 -> MoveRook(pos, r, Black, a8, d8)
           [] OTHER -> pos

\* faulty variant of MakeCastleRights: `=` written for `&=`
MakeCastleRights_Assign(pos, move) ==
    [pos EXCEPT !.castle = CastlingRights[getMoveTarget(move)]]

\* faulty variant of MakeCastleRights: the target square is not looked up
MakeCastleRights_SourceOnly(pos, move) ==
    [pos EXCEPT !.castle = BitAnd(@, CastlingRights[getMoveSource(move)])]

\* castle &= CastlingRights[fromSq]; castle &= CastlingRights[toSq];
MakeCastleRights(pos, move) ==
    [pos EXCEPT !.castle = BitAnd(BitAnd(@, CastlingRights[getMoveSource(move)]),
                                  CastlingRights[getMoveTarget(move)])]

\* st->castle = castle; st->epsq = epsq;
MakeStateInfo(pos) ==
    [pos EXCEPT !.states[pos.st].castle = pos.castle,
                !.states[pos.st].epsq = pos.epsq]

\* occupancies[Both] = occupancies[White] | occupancies[Black]; sideToMove ^= 1;
MakeFinish(pos) ==
    [pos EXCEPT !.occupancies[Both] = pos.occupancies[White] \cup pos.occupancies[Black],
                !.sideToMove = 1 - pos.sideToMove]

\* faulty variant of MakeLegal: the king of the side now to move is tested
MakeLegal_WrongKing(pos) ==
    IF isSquareAttacked(pos,
                        IF pos.sideToMove = White THEN ls1b(pos.bitboards[K])
                        ELSE ls1b(pos.bitboards[k]),
                        pos.sideToMove)
    THEN 0 ELSE 1

\* the legality test made after the side has been flipped: 0 when the king
\* of the side that moved is attacked by the side now to move, else 1
MakeLegal(pos) ==
    IF isSquareAttacked(pos,
                        IF pos.sideToMove = White THEN ls1b(pos.bitboards[k])
                        ELSE ls1b(pos.bitboards[K]),
                        pos.sideToMove)
    THEN 0 ELSE 1

\* the body of the AllMoves branch up to the legality test: the position
\* it leaves
MakeApplied(pos, move) ==
    LET s1 == MakeMovePiece(pos, move)
        s2 == MakeCapture(s1, move)
        s3 == MakePromo(s2, move)
        s4 == MakeEnPassant(s3, move)
        s5 == MakeEpSquare(s4, move)
        s6 == MakeCastling(s5, move)
        s7 == MakeCastleRights(s6, move)
        s8 == MakeStateInfo(s7)
    IN MakeFinish(s8)

\* the body of the AllMoves branch: the position it leaves and what it returns
MakeAllMoves(pos, move) ==
    LET s9 == MakeApplied(pos, move)
    IN [pos |-> s9, ret |-> MakeLegal(s9)]

\* faulty variant of MakeCaptureMoves: the capture flag is not tested
MakeCaptureMoves_NoFilter(pos, move) ==
    [pos |-> MakeAllMoves(pos, move).pos, ret |-> 0]

\* the CaptureMoves branch: a capture is made through makeMove(move, AllMoves)
\* whose result is dropped, and control reaches the final `return 0`; a
\* non-capture returns 0 at once
MakeCaptureMoves(pos, move) ==
    IF getMoveCapture(move) # 0
    THEN [pos |-> MakeAllMoves(pos, move).pos, ret |-> 0]
    ELSE [pos |-> pos, ret |-> 0]

makeMove(pos, move, flag) ==
    IF flag = AllMoves THEN MakeAllMoves(pos, move) ELSE MakeCaptureMoves(pos, move)

(***************************************************************************)
(* undoMove(m).  `pos` below is the position after `sideToMove ^= 1`.      *)
(***************************************************************************)
\* undo promotions: the switch compares promo with N, B, R, Q in both branches
UndoPromo(pos, m) ==
    LET fromSq == getMoveSource(m)
        toSq == getMoveTarget(m)
        promo == getPromo(m)
    IN IF pos.sideToMove = White
       THEN LET popped == IF promo \in {N, B, R, Q} THEN PopPiece(pos, promo, toSq) ELSE pos
            IN SetOcc(SetPiece(PopOcc(popped, White, toSq), P, fromSq), White, fromSq)
       ELSE LET popped == CASE promo = N -> PopPiece(pos, n, toSq)
                            [] promo = B -> PopPiece(pos, b, toSq)
                            [] promo = R -> PopPiece(pos, r, toSq)
                            [] promo = Q -> PopPiece(pos, q, toSq)
                            [] OTHER -> pos
            IN SetOcc(SetPiece(PopOcc(popped, Black, toSq), p, fromSq), Black, fromSq)

\* popBit(bitboards[piece], fromSq) ... setBit(occupancies[side], toSq): one
\* four-statement group of undoMove (piece bitboard and occupancy may differ
\* in colour, as written in the function)
UndoGroup(pos, piece, side, popSq, setSq) ==
    SetOcc(SetPiece(PopOcc(PopPiece(pos, piece, popSq), side, popSq), piece, setSq),
           side, setSq)

\* undo castling: the branch for fromSq == e1 and the `else` branch
UndoCastle(pos, m) ==
    LET fromSq == getMoveSource(m)
        toSq == getMoveTarget(m)
    IN IF fromSq = e1
       THEN LET king == UndoGroup(pos, K, White, toSq, e1)
            IN IF toSq = g1 THEN UndoGroup(king, R, White, f1, h1)
               ELSE UndoGroup(king, R, White, d1, a1)
       ELSE LET king == UndoGroup(pos, K, White, toSq, e8)
            IN IF toSq = g8 THEN UndoGroup(king, R, Black, f8, h8)
               ELSE UndoGroup(king, R, Black, d8, a8)

\* undo any other move: switch (piece) puts the piece back, then the
\* captured piece recorded in st->capturedPiece, if any, is set again
UndoOther(pos, m) ==
    LET fromSq == getMoveSource(m)
        toSq == getMoveTarget(m)
        piece == getMovePiece(m)
        back == IF piece \in P .. K THEN UndoGroup(pos, piece, White, toSq, fromSq)
                ELSE IF piece \in p .. k THEN UndoGroup(pos, piece, Black, toSq, fromSq)
                ELSE pos
        capturedPiece == pos.states[pos.st].capturedPiece
        capsq == IF getEp(m) = 0 THEN toSq
                 ELSE IF pos.sideToMove = White THEN toSq + 8 ELSE toSq - 8
    IN IF capturedPiece >= P /\ capturedPiece <= k
       THEN SetPiece(back, capturedPiece, capsq)
       ELSE back

\* undoMove up to and including `st = st->previous`
UndoBoard(pos, m) ==
    LET flipped == [pos EXCEPT !.sideToMove = 1 - pos.sideToMove]
        undone == IF getPromo(m) # 0 THEN UndoPromo(flipped, m)
                  ELSE IF getCastle(m) # 0 THEN UndoCastle(flipped, m)
                  ELSE UndoOther(flipped, m)
    IN [undone EXCEPT
           !.occupancies[Both] = undone.occupancies[White] \cup undone.occupancies[Black],
           !.st = pos.st - 1]

\* the positions undoMove can leave: `castle = st->castle` reads the entry
\* st now points to; when that pointer is NULL the read is undefined and
\* castle may receive any value
undoMove(pos, m) ==
    LET popped == UndoBoard(pos, m) IN
    IF popped.st = NULL
    THEN {[popped EXCEPT !.castle = any] : any \in 0 .. 15}
    ELSE {[popped EXCEPT !.castle = popped.states[popped.st].castle]}

(***************************************************************************)
(* generateMoves.  movgen.cpp is not part of the sources: the generator is *)
(* modelled from the specification's description of it, as the set of      *)
(* pseudo-legal moves of the side to move.                                 *)
(***************************************************************************)
\* the moves of one pawn to target square toSq: four promotions from the
\* last-but-one rank, else one move
PawnMovesTo(side, fromSq, toSq, capture) ==
    LET pawn == IF side = White THEN P ELSE p
        promoting == IF side = White THEN fromSq \in 8 .. 15 ELSE fromSq \in 48 .. 55
        promos == IF side = White THEN {N, B, R, Q} ELSE {n, b, r, q}
    IN IF promoting
       THEN {encodeMove(fromSq, toSq, pawn, promo, capture, 0, 0, 0) : promo \in promos}
       ELSE {encodeMove(fromSq, toSq, pawn, 0, capture, 0, 0, 0)}

GeneratePawnMoves(pos, fromSq) ==
    LET side == pos.sideToMove
        pawn == IF side = White THEN P ELSE p
        step == IF side = White THEN -8 ELSE 8
        one == fromSq + step
        two == fromSq + 2 * step
        onStart == IF side = White THEN fromSq \in 48 .. 55 ELSE fromSq \in 8 .. 15
        pushes == IF one \in Squares /\ one \notin pos.occupancies[Both]
                  THEN PawnMovesTo(side, fromSq, one, 0)
                       \cup (IF onStart /\ two \notin pos.occupancies[Both]
                             THEN {encodeMove(fromSq, two, pawn, 0, 0, 1, 0, 0)} ELSE {})
                  ELSE {}
        captures == UNION {PawnMovesTo(side, fromSq, toSq, 1) :
                              toSq \in PawnAttacks[side][fromSq] \cap pos.occupancies[Opponent(side)]}
        enpassant == IF pos.epsq # NoSq /\ pos.epsq \in PawnAttacks[side][fromSq]
                     THEN {encodeMove(fromSq, pos.epsq, pawn, 0, 1, 0, 1, 0)} ELSE {}
    IN pushes \cup captures \cup enpassant

\* knight, bishop, rook, queen and king moves of the piece `piece` on fromSq
GeneratePieceMoves(pos, piece, fromSq) ==
    LET side == pos.sideToMove
        kind == piece % 6
        attacks == CASE kind = N -> KnightAttacks[fromSq]
                     [] kind = B -> getBishopAttacks(fromSq, pos.occupancies[Both])
                     [] kind = R -> getRookAttacks(fromSq, pos.occupancies[Both])
                     [] kind = Q -> getQueenAttacks(fromSq, pos.occupancies[Both])
                     [] OTHER -> KingAttacks[fromSq]
    IN {encodeMove(fromSq, toSq, piece, 0,
                   IF toSq \in pos.occupancies[Opponent(side)] THEN 1 ELSE 0, 0, 0, 0) :
           toSq \in attacks \ pos.occupancies[side]}

\* one castling move: its right is held, the squares between king and rook
\* are empty, and the king's square, the square it crosses and its target
\* are not attacked by the opponent
GenerateCastle(pos, right, king, kingFrom, kingTo, empty, safe) ==
    IF /\ BitAnd(pos.castle, right) # 0
       /\ empty \cap pos.occupancies[Both] = {}
       /\ \A sq \in safe : ~isSquareAttacked(pos, sq, Opponent(pos.sideToMove))
    THEN {encodeMove(kingFrom, kingTo, king, 0, 0, 0, 0, 1)} ELSE {}

GenerateCastling(pos) ==
    IF pos.sideToMove = White
    THEN GenerateCastle(pos, 1, K, e1, g1, {f1, g1}, {e1, f1, g1})
         \cup GenerateCastle(pos, 2, K, e1, c1, {b1, c1, d1}, {e1, d1, c1})
    ELSE GenerateCastle(pos, 4, k, e8, g8, {f8, g8}, {e8, f8, g8})
         \cup GenerateCastle(pos, 8, k, e8, c8, {b8, c8, d8}, {e8, d8, c8})

generateMoves(pos) ==
    LET side == pos.sideToMove
        first == IF side = White THEN P ELSE p
    IN UNION {GeneratePawnMoves(pos, fromSq) : fromSq \in pos.bitboards[first]}
       \cup UNION {UNION {GeneratePieceMoves(pos, piece, fromSq) :
                              fromSq \in pos.bitboards[piece]} :
                      piece \in (first + 1) .. (first + 5)}
       \cup GenerateCastling(pos)

(***************************************************************************)
(* State.  The position globals and the StateInfo chain of the program,    *)
(* and the caller:                                                         *)
(*   frames  one entry per made and not yet reverted move, innermost last: *)
(*           the move, the filter, what makeMove returned, saveBoard's     *)
(*           copy and the whole position before the call;                  *)
(*   last    the call that completed last: op, move, flag, ret (of the     *)
(*           makeMove concerned), before (the position before the call),   *)
(*           pre (the position before the makeMove concerned), direct      *)
(*           (the call reverts the makeMove that immediately preceded it)  *)
(*           and pure (every call so far was an accepted                   *)
(*           makeMove(m, AllMoves) or an undoMove);                        *)
(*   calls   how many calls the caller has made.                           *)
(***************************************************************************)
VARIABLES bitboards, occupancies, sideToMove, epsq, castle, st, states, frames, last, calls,
          nodes, stack, output, run,
          scorePV, followPV, ply, pv_table, killers, history, MoveList, scored,
          leapers, magic, lookup

vars == <<bitboards, occupancies, sideToMove, epsq, castle, st, states, frames, last, calls,
          nodes, stack, output, run,
          scorePV, followPV, ply, pv_table, killers, history, MoveList, scored,
          leapers, magic, lookup>>

\* the position, the variables of the make / undo caller, and the variables
\* of perft and dperft: the node counter, the activations of perft and
\* dperft, the lines dperft printed, and the call under way
positionVars == <<bitboards, occupancies, sideToMove, epsq, castle, st, states>>

callerVars == <<frames, last, calls>>

perftVars == <<nodes, stack, output, run>>

\* no perft or dperft call is under way
NoRun == [fn |-> "none", depth |-> 0, asserts |-> FALSE, nodes |-> 0, status |-> "idle"]

PerftIdle == nodes = 0 /\ stack = <<>> /\ output = <<>> /\ run = NoRun

\* the globals of the search that scoreMove and enablePV_scoring read and
\* write, the move list the search generated for the position it is at, and
\* the last call of one of the two
searchVars == <<scorePV, followPV, ply, pv_table, killers, history, MoveList, scored>>

\* plies the search is at
Plies == 0 .. 1

\* history[piece][square] holding one value everywhere
HistoryTable(value) == [piece \in Pieces |-> [square \in Squares |-> value]]

\* neither scoreMove nor enablePV_scoring has been called.  was is scorePV
\* at the call, bonus the number of times scoreMove returned the PV score
\* since enablePV_scoring last set scorePV
NoScore == [op |-> "none", move |-> 0, ret |-> 0, was |-> FALSE, bonus |-> 0]

\* the search has not started: the globals are zero-initialised
SearchIdle ==
    /\ scorePV = FALSE /\ followPV = FALSE /\ ply = 0
    /\ pv_table = [at \in Plies |-> 0]
    /\ killers = [id \in 0 .. 1 |-> [at \in Plies |-> 0]]
    /\ history = HistoryTable(0)
    /\ MoveList = <<>>
    /\ scored = NoScore

\* the leaper attack tables as the program holds them, the slider attack
\* table of one square, and the last table lookup
tableVars == <<leapers, magic, lookup>>

NoLookup == [kind |-> "none", side |-> White, square |-> 0, occupancy |-> {}, index |-> 0,
             attacks |-> {}]

NoMagic == [kind |-> "none", square |-> 0, table |-> {}]

\* initLeaperAttacks() has run, no slider table is looked at
TablesBuilt ==
    /\ leapers = [PawnAttacks |-> PawnAttacks, KnightAttacks |-> KnightAttacks,
                  KingAttacks |-> KingAttacks]
    /\ magic = NoMagic
    /\ lookup = NoLookup

\* the current position as a record
Position ==
    [bitboards |-> bitboards, occupancies |-> occupancies, sideToMove |-> sideToMove,
     epsq |-> epsq, castle |-> castle, st |-> st, states |-> states]

\* saveBoard(): the copies it takes of bitboards, occupancies, sideToMove,
\* epsq and castle
saveBoard(pos) ==
    [bitboards |-> pos.bitboards, occupancies |-> pos.occupancies,
     sideToMove |-> pos.sideToMove, epsq |-> pos.epsq, castle |-> pos.castle]

\* faulty variant of takeBack: side_copy is not written back
takeBack_NoSide(pos, copy) ==
    [pos EXCEPT !.bitboards = copy.bitboards, !.occupancies = copy.occupancies,
                !.epsq = copy.epsq, !.castle = copy.castle]

\* faulty variant of takeBack: enpassant_copy is not written back
takeBack_NoEpsq(pos, copy) ==
    [pos EXCEPT !.bitboards = copy.bitboards, !.occupancies = copy.occupancies,
                !.sideToMove = copy.sideToMove, !.castle = copy.castle]

\* takeBack(): the copies are written back; st and the StateInfo entries
\* are not among them
takeBack(pos, copy) ==
    [pos EXCEPT !.bitboards = copy.bitboards, !.occupancies = copy.occupancies,
                !.sideToMove = copy.sideToMove, !.epsq = copy.epsq,
                !.castle = copy.castle]

\* the position the position parser sets up from piece placements: the
\* occupancies are derived, and the StateInfo chain holds `depth` entries
\* recording the position's ep square and castling rights and no capture
SetUp(placement, side, ep, rights, depth) ==
    LET boards == [piece \in Pieces |-> {pl[2] : pl \in {x \in placement : x[1] = piece}}]
        white == UNION {boards[piece] : piece \in P .. K}
        black == UNION {boards[piece] : piece \in p .. k}
    IN [bitboards |-> boards,
        occupancies |-> [colour \in {White, Black, Both} |->
                            CASE colour = White -> white
                              [] colour = Black -> black
                              [] OTHER -> white \cup black],
        sideToMove |-> side, epsq |-> ep, castle |-> rights, st |-> depth,
        states |-> [i \in 1 .. depth |->
                       [capturedPiece |-> NoPiece, castle |-> rights, epsq |-> ep]]]

\* r3k2r/p6p/P6P/8/8/p6p/P6P/R3K2R w KQkq -: all four castlings, rook files blocked
CastlingPlacement ==
    {<<r, 0>>, <<k, 4>>, <<r, 7>>, <<p, 8>>, <<p, 15>>, <<P, 16>>, <<P, 23>>,
     <<p, 40>>, <<p, 47>>, <<P, 48>>, <<P, 55>>, <<R, 56>>, <<K, 60>>, <<R, 63>>}

\* 1n2k3/P7/8/3pP3/8/8/4p1P1/4K3 w - d6: promotion, promotion capture,
\* en passant, double push, a capture by the king, and king steps onto
\* squares a pawn attacks
WhitePawnPlacement ==
    {<<n, 1>>, <<k, 4>>, <<P, 8>>, <<p, 27>>, <<P, 28>>, <<p, 52>>, <<P, 54>>, <<K, 60>>}

\* its colour mirror, 4k3/4P1p1/8/8/3Pp3/8/p7/1N2K3 b - d3
BlackPawnPlacement ==
    {<<k, 4>>, <<P, 12>>, <<p, 14>>, <<P, 35>>, <<p, 36>>, <<p, 48>>, <<N, 57>>, <<K, 60>>}

\* r3k3/8/1N6/8/8/8/8/4K3 w q -: the knight can take the rook on its corner
CornerPlacement == {<<r, 0>>, <<k, 4>>, <<N, 17>>, <<K, 60>>}

StartPositions ==
    {SetUp(CastlingPlacement, White, NoSq, 15, MaxStates),
     SetUp(WhitePawnPlacement, White, 19, 0, MaxStates),
     SetUp(BlackPawnPlacement, Black, 43, 0, MaxStates),
     SetUp(CornerPlacement, White, NoSq, 8, MaxStates)}

Init ==
    \E start \in StartPositions :
        /\ bitboards = start.bitboards
        /\ occupancies = start.occupancies
        /\ sideToMove = start.sideToMove
        /\ epsq = start.epsq
        /\ castle = start.castle
        /\ st = start.st
        /\ states = start.states
        /\ frames = <<>>
        /\ last = [op |-> "setup", move |-> 0, flag |-> AllMoves, ret |-> 1,
                   direct |-> FALSE, pure |-> TRUE, before |-> start, pre |-> start]
        /\ calls = 0
        /\ PerftIdle
        /\ SearchIdle
        /\ TablesBuilt

\* the position variables take the values of the record pos
Becomes(pos) ==
    /\ bitboards' = pos.bitboards
    /\ occupancies' = pos.occupancies
    /\ sideToMove' = pos.sideToMove
    /\ epsq' = pos.epsq
    /\ castle' = pos.castle
    /\ st' = pos.st
    /\ states' = pos.states

\* the innermost made move was rejected and has not been taken back yet
Rejected == frames # <<>> /\ frames[Len(frames)].ret = 0

\* the caller may start another call
CanCall == calls < MaxCalls /\ st # NULL

\* the caller saves the board and calls makeMove(move, flag) with a move
\* of the generated list
Make(move, flag) ==
    /\ CanCall /\ ~Rejected
    /\ Len(frames) < MaxPly
    /\ LET made == makeMove(Position, move, flag) IN
           /\ Becomes(made.pos)
           /\ frames' = Append(frames, [move |-> move, flag |-> flag, ret |-> made.ret,
                                        copy |-> saveBoard(Position), pre |-> Position])
           /\ last' = [op |-> "make", move |-> move, flag |-> flag, ret |-> made.ret,
                       direct |-> FALSE,
                       pure |-> last.pure /\ flag = AllMoves /\ made.ret = 1,
                       before |-> Position, pre |-> Position]
    /\ calls' = calls + 1
    /\ UNCHANGED <<perftVars, searchVars, tableVars>>

\* the caller restores the board it saved before the innermost makeMove
TakeBack ==
    /\ CanCall
    /\ frames # <<>>
    /\ LET frame == frames[Len(frames)] IN
          /\ Becomes(takeBack(Position, frame.copy))
          /\ last' = [op |-> "takeBack", move |-> frame.move, flag |-> frame.flag,
                      ret |-> frame.ret, direct |-> last.op = "make", pure |-> FALSE,
                      before |-> Position, pre |-> frame.pre]
    /\ frames' = SubSeq(frames, 1, Len(frames) - 1)
    /\ calls' = calls + 1
    /\ UNCHANGED <<perftVars, searchVars, tableVars>>

\* the caller calls undoMove(m) for the innermost move, which makeMove accepted
Undo ==
    /\ CanCall /\ ~Rejected
    /\ frames # <<>>
    /\ LET frame == frames[Len(frames)] IN
           /\ \E undone \in undoMove(Position, frame.move) : Becomes(undone)
           /\ last' = [op |-> "undo", move |-> frame.move, flag |-> frame.flag,
                       ret |-> frame.ret, direct |-> last.op = "make", pure |-> last.pure,
                       before |-> Position, pre |-> frame.pre]
    /\ frames' = SubSeq(frames, 1, Len(frames) - 1)
    /\ calls' = calls + 1
    /\ UNCHANGED <<perftVars, searchVars, tableVars>>

Next ==
    \/ \E move \in generateMoves(Position), flag \in {AllMoves, CaptureMoves} : Make(move, flag)
    \/ TakeBack
    \/ Undo

Spec == Init /\ [][Next]_vars

(***************************************************************************)
(* perft and dperft (search.h, search.cpp).  An activation is one call of  *)
(* perft or dperft on the call stack; a step runs the function from one    *)
(* call or return to the next.  nodes is the global node counter.  Whether *)
(* assert() is compiled in depends on the build (NDEBUG).                  *)
(***************************************************************************)
\* deepest depth perft and dperft are called with
MaxDepth == 2

\* prettyMove: source square, target square and promotion letter (the same
\* letter for both colours, none without promotion)
prettyMove(move) ==
    <<getMoveSource(move), getMoveTarget(move), getPromo(move) % 6>>

\* generateMoves(MoveList): the moves in the order of the list
GenerateMoveList(pos) ==
    LET moves == generateMoves(pos) IN
    [i \in 1 .. Cardinality(moves) |->
        CHOOSE move \in moves : Cardinality({other \in moves : other < move}) = i - 1]

\* a call of fn(depth) that has not run its first statement yet
Activation(fn, depth) ==
    [fn |-> fn, depth |-> depth, entered |-> FALSE, moves |-> <<>>, move_count |-> 0,
     copy |-> saveBoard(Position), cNodes |-> 0]

\* Position 3 of the perft suite: 8/2p5/3p4/KP5r/1R3p1k/8/4P1P1/8 w - -
Position3Placement ==
    {<<p, 10>>, <<p, 19>>, <<K, 24>>, <<P, 25>>, <<r, 31>>, <<R, 33>>, <<p, 37>>,
     <<k, 39>>, <<P, 52>>, <<P, 54>>}

Position3 == SetUp(Position3Placement, White, NoSq, 0, MaxStates)

PerftPositions ==
    {Position3,
     SetUp(CastlingPlacement, White, NoSq, 15, MaxStates),
     SetUp(WhitePawnPlacement, White, 19, 0, MaxStates)}

PerftInit ==
    \E start \in PerftPositions, fn \in {"perft", "dperft"}, depth \in 0 .. MaxDepth,
       asserts \in BOOLEAN, counted \in {0, 3} :
        /\ bitboards = start.bitboards
        /\ occupancies = start.occupancies
        /\ sideToMove = start.sideToMove
        /\ epsq = start.epsq
        /\ castle = start.castle
        /\ st = start.st
        /\ states = start.states
        /\ frames = <<>>
        /\ last = [op |-> "setup", move |-> 0, flag |-> AllMoves, ret |-> 1,
                   direct |-> FALSE, pure |-> TRUE, before |-> start, pre |-> start]
        /\ calls = 0
        /\ SearchIdle
        /\ TablesBuilt
        /\ nodes = counted
        /\ stack = <<[fn |-> fn, depth |-> depth, entered |-> FALSE, moves |-> <<>>,
                      move_count |-> 0, copy |-> saveBoard(start), cNodes |-> 0]>>
        /\ output = <<>>
        /\ run = [fn |-> fn, depth |-> depth, asserts |-> asserts, nodes |-> counted,
                  status |-> "running"]

\* the activation that is running
Top == stack[Len(stack)]

Running == run.status = "running" /\ stack # <<>>

\* a failed assert() ends the program
Abort ==
    /\ run' = [run EXCEPT !.status = "aborted"]
    /\ UNCHANGED <<positionVars, nodes, stack, output>>

\* the running activation returns with the counter at counted.  Its caller
\* goes on after the call: dperft computes PrevNodes = nodes - cNodes; both
\* take the board back; dperft prints the line of the move; the loop goes
\* to the next move.  Without caller the call under way has returned.
Return(counted) ==
    LET rest == SubSeq(stack, 1, Len(stack) - 1) IN
    IF rest = <<>>
    THEN /\ stack' = <<>>
         /\ run' = [run EXCEPT !.status = "returned"]
         /\ UNCHANGED <<positionVars, output>>
    ELSE LET caller == rest[Len(rest)]
             move == caller.moves[caller.move_count + 1]
         IN /\ Becomes(takeBack(Position, caller.copy))
            /\ stack' = [rest EXCEPT ![Len(rest)].move_count = @ + 1]
            /\ output' = IF caller.fn = "dperft"
                         THEN Append(output, [move |-> prettyMove(move),
                                              PrevNodes |-> counted - caller.cNodes])
                         ELSE output
            /\ UNCHANGED run

\* perft(depth) up to the loop: the assertion, the leaf, generateMoves
PerftEnter ==
    /\ Running
    /\ Top.fn = "perft" /\ ~Top.entered
    /\ IF run.asserts /\ ~(Top.depth >= 0)
       THEN Abort
       ELSE IF Top.depth = 0
       THEN nodes' = nodes + 1 /\ Return(nodes + 1)
       ELSE /\ stack' = [stack EXCEPT ![Len(stack)] =
                            [Top EXCEPT !.entered = TRUE, !.moves = GenerateMoveList(Position)]]
            /\ UNCHANGED <<positionVars, nodes, output, run>>
    /\ UNCHANGED <<callerVars, searchVars, tableVars>>

\* faulty variant of LoopSkip: the move makeMove returned 0 for is kept
\* and perft(depth - 1) is called for it
LoopSkip_Recurse(fn) ==
    /\ Running
    /\ Top.fn = fn /\ Top.entered
    /\ Top.move_count < Len(Top.moves)
    /\ LET made == makeMove(Position, Top.moves[Top.move_count + 1], AllMoves) IN
           /\ made.ret = 0
           /\ Becomes(made.pos)
    /\ stack' = Append([stack EXCEPT ![Len(stack)] =
                           [Top EXCEPT !.copy = saveBoard(Position),
                                       !.cNodes = IF fn = "dperft" THEN nodes ELSE @]],
                       [fn |-> "perft", depth |-> Top.depth - 1, entered |-> FALSE,
                        moves |-> <<>>, move_count |-> 0, copy |-> saveBoard(Position),
                        cNodes |-> 0])
    /\ UNCHANGED <<nodes, output, run, callerVars, searchVars, tableVars>>

\* one round of the loop in which makeMove returns 0: saveBoard(), the
\* call, takeBack(), continue
LoopSkip(fn) ==
    /\ Running
    /\ Top.fn = fn /\ Top.entered
    /\ Top.move_count < Len(Top.moves)
    /\ LET made == makeMove(Position, Top.moves[Top.move_count + 1], AllMoves) IN
           /\ made.ret = 0
           /\ Becomes(takeBack(made.pos, saveBoard(Position)))
    /\ stack' = [stack EXCEPT ![Len(stack)].move_count = @ + 1]
    /\ UNCHANGED <<nodes, output, run, callerVars, searchVars, tableVars>>

\* one round of the loop in which makeMove returns 1, up to the call of
\* perft(depth - 1): saveBoard(), makeMove, (dperft: cNodes = nodes), call
LoopCall(fn) ==
    /\ Running
    /\ Top.fn = fn /\ Top.entered
    /\ Top.move_count < Len(Top.moves)
    /\ Len(stack) < MaxDepth + 2
    /\ LET made == makeMove(Position, Top.moves[Top.move_count + 1], AllMoves) IN
           /\ made.ret = 1
           /\ Becomes(made.pos)
    /\ stack' = Append([stack EXCEPT ![Len(stack)] =
                           [Top EXCEPT !.copy = saveBoard(Position),
                                       !.cNodes = IF fn = "dperft" THEN nodes ELSE @]],
                       [fn |-> "perft", depth |-> Top.depth - 1, entered |-> FALSE,
                        moves |-> <<>>, move_count |-> 0, copy |-> saveBoard(Position),
                        cNodes |-> 0])
    /\ UNCHANGED <<nodes, output, run, callerVars, searchVars, tableVars>>

PerftSkip == LoopSkip("perft")

PerftCall == LoopCall("perft")

\* the loop of perft is over: perft returns
PerftReturn ==
    /\ Running
    /\ Top.fn = "perft" /\ Top.entered
    /\ Top.move_count = Len(Top.moves)
    /\ Return(nodes)
    /\ UNCHANGED <<nodes, callerVars, searchVars, tableVars>>

\* dperft(depth) up to the loop: the assertion, nodes = 0, generateMoves
DperftEnter ==
    /\ Running
    /\ Top.fn = "dperft" /\ ~Top.entered
    /\ IF run.asserts /\ ~(Top.depth < 0)
       THEN Abort
       ELSE /\ nodes' = 0
            /\ stack' = [stack EXCEPT ![Len(stack)] =
                            [Top EXCEPT !.entered = TRUE, !.moves = GenerateMoveList(Position)]]
            /\ UNCHANGED <<positionVars, output, run>>
    /\ UNCHANGED <<callerVars, searchVars, tableVars>>

DperftSkip == LoopSkip("dperft")

DperftCall == LoopCall("dperft")

\* the loop of dperft is over: the results are printed and dperft returns
DperftFinish ==
    /\ Running
    /\ Top.fn = "dperft" /\ Top.entered
    /\ Top.move_count = Len(Top.moves)
    /\ output' = Append(output, [Depth |-> Top.depth, Nodes |-> nodes])
    /\ stack' = <<>>
    /\ run' = [run EXCEPT !.status = "returned"]
    /\ UNCHANGED <<positionVars, nodes, callerVars, searchVars, tableVars>>

PerftNext ==
    \/ PerftEnter
    \/ PerftSkip
    \/ PerftCall
    \/ PerftReturn
    \/ DperftEnter
    \/ DperftSkip
    \/ DperftCall
    \/ DperftFinish

SpecPerft == PerftInit /\ [][PerftNext]_vars

(***************************************************************************)
(* Move ordering: scoreMove() and enablePV_scoring() of search.h, called   *)
(* by the search on the moves of the list generated for the current        *)
(* position.                                                               *)
(***************************************************************************)

MOVESCORE_PROMO_QUIET == 10000

\* faulty variant of mvv_lva: the table is read as [victim][attacker]
mvv_lva_Transposed ==
    LET row == <<<<105, 205, 305, 405, 505, 605>>,
                 <<104, 204, 304, 404, 504, 604>>,
                 <<103, 203, 303, 403, 503, 603>>,
                 <<102, 202, 302, 402, 502, 602>>,
                 <<101, 201, 301, 401, 501, 601>>,
                 <<100, 200, 300, 400, 500, 600>>>>
    IN [attacker \in Pieces |-> [victim \in Pieces |-> row[(victim % 6) + 1][(attacker % 6) + 1]]]

\* mvv_lva[attacker][victim]: the rows of the table are the attackers, pawn
\* to king, the columns the victims, and both repeat for the two colours
mvv_lva ==
    LET row == <<<<105, 205, 305, 405, 505, 605>>,
                 <<104, 204, 304, 404, 504, 604>>,
                 <<103, 203, 303, 403, 503, 603>>,
                 <<102, 202, 302, 402, 502, 602>>,
                 <<101, 201, 301, 401, 501, 601>>,
                 <<100, 200, 300, 400, 500, 600>>>>
    IN [attacker \in Pieces |-> [victim \in Pieces |-> row[(attacker % 6) + 1][(victim % 6) + 1]]]

\* the victim scoreMove finds on the target square: the first of the
\* opponent's bitboards with the bit set, and P when there is none
TargetPiece(toSq) ==
    LET start_piece == IF sideToMove = White THEN p ELSE P
        end_piece == IF sideToMove = White THEN k ELSE K
        hit == {bb_piece \in start_piece .. end_piece : getBit(bitboards[bb_piece], toSq) # 0}
    IN IF hit = {} THEN P ELSE CHOOSE bb_piece \in hit : \A other \in hit : bb_piece <= other

\* faulty variant of scoreMove: the two killer slots are taken in the other order
scoreMove_KillersSwapped(move) ==
    IF scorePV /\ pv_table[ply] = move
    THEN [ret |-> 20000, scorePV |-> FALSE]
    ELSE IF getMoveCapture(move) # 0
    THEN [ret |-> mvv_lva[getMovePiece(move)][TargetPiece(getMoveTarget(move))] + 10000,
          scorePV |-> scorePV]
    ELSE IF getPromo(move) # 0
    THEN [ret |-> MOVESCORE_PROMO_QUIET, scorePV |-> scorePV]
    ELSE IF killers[1][ply] = move
    THEN [ret |-> 9000, scorePV |-> scorePV]
    ELSE IF killers[0][ply] = move
    THEN [ret |-> 8000, scorePV |-> scorePV]
    ELSE [ret |-> history[getMovePiece(move)][getMoveTarget(move)], scorePV |-> scorePV]

\* faulty variant of scoreMove: the PV move is scored without clearing scorePV
scoreMove_KeepsPV(move) ==
    IF scorePV /\ pv_table[ply] = move
    THEN [ret |-> 20000, scorePV |-> scorePV]
    ELSE IF getMoveCapture(move) # 0
    THEN [ret |-> mvv_lva[getMovePiece(move)][TargetPiece(getMoveTarget(move))] + 10000,
          scorePV |-> scorePV]
    ELSE IF getPromo(move) # 0
    THEN [ret |-> MOVESCORE_PROMO_QUIET, scorePV |-> scorePV]
    ELSE IF killers[0][ply] = move
    THEN [ret |-> 9000, scorePV |-> scorePV]
    ELSE IF killers[1][ply] = move
    THEN [ret |-> 8000, scorePV |-> scorePV]
    ELSE [ret |-> history[getMovePiece(move)][getMoveTarget(move)], scorePV |-> scorePV]

\* scoreMove(): the score it returns and the scorePV it leaves.  pv_table
\* holds row 0 of the program's table, the only row scoreMove reads
scoreMove(move) ==
    IF scorePV /\ pv_table[ply] = move
    THEN [ret |-> 20000, scorePV |-> FALSE]
    ELSE IF getMoveCapture(move) # 0
    THEN [ret |-> mvv_lva[getMovePiece(move)][TargetPiece(getMoveTarget(move))] + 10000,
          scorePV |-> scorePV]
    ELSE IF getPromo(move) # 0
    THEN [ret |-> MOVESCORE_PROMO_QUIET, scorePV |-> scorePV]
    ELSE IF killers[0][ply] = move
    THEN [ret |-> 9000, scorePV |-> scorePV]
    ELSE IF killers[1][ply] = move
    THEN [ret |-> 8000, scorePV |-> scorePV]
    ELSE [ret |-> history[getMovePiece(move)][getMoveTarget(move)], scorePV |-> scorePV]

\* enablePV_scoring(): followPV is cleared, and both flags are set when the
\* PV move of the ply is in the list
enablePV_scoring(list) ==
    LET hit == \E count \in 1 .. Len(list) : pv_table[ply] = list[count]
    IN [scorePV |-> IF hit THEN TRUE ELSE scorePV, followPV |-> hit]

\* 6k1/P7/8/3q3p/4P3/8/7P/3QK1N1 w - -: a pawn takes the queen, the queen
\* takes a pawn, a quiet promotion and quiet moves of every piece
WhiteOrderingPlacement ==
    {<<k, 6>>, <<P, 8>>, <<q, 27>>, <<p, 31>>, <<P, 36>>, <<P, 55>>, <<Q, 59>>,
     <<K, 60>>, <<N, 62>>}

\* its colour mirror, 3qk1n1/7p/8/4p3/3Q3P/8/p7/6K1 b - -
BlackOrderingPlacement ==
    {<<q, 3>>, <<k, 4>>, <<n, 6>>, <<p, 15>>, <<p, 28>>, <<Q, 35>>, <<P, 39>>,
     <<p, 48>>, <<K, 62>>}

SearchPositions ==
    {SetUp(WhiteOrderingPlacement, White, NoSq, 0, MaxStates),
     SetUp(BlackOrderingPlacement, Black, NoSq, 0, MaxStates)}

\* the moves of the two positions that the properties name: pawn takes
\* queen, queen takes pawn, the quiet promotion to a queen, a knight move,
\* a king move, and the single and double push of the h pawn
PawnTakesQueen == IF sideToMove = White THEN encodeMove(36, 27, P, 0, 1, 0, 0, 0)
                  ELSE encodeMove(28, 35, p, 0, 1, 0, 0, 0)
QueenTakesPawn == IF sideToMove = White THEN encodeMove(59, 31, Q, 0, 1, 0, 0, 0)
                  ELSE encodeMove(3, 39, q, 0, 1, 0, 0, 0)
QuietPromotion == IF sideToMove = White THEN encodeMove(8, 0, P, Q, 0, 0, 0, 0)
                  ELSE encodeMove(48, 56, p, q, 0, 0, 0, 0)
KnightMove == IF sideToMove = White THEN encodeMove(62, 45, N, 0, 0, 0, 0, 0)
              ELSE encodeMove(6, 21, n, 0, 0, 0, 0, 0)
KingMove == IF sideToMove = White THEN encodeMove(60, 52, K, 0, 0, 0, 0, 0)
            ELSE encodeMove(4, 12, k, 0, 0, 0, 0, 0)
SinglePush == IF sideToMove = White THEN encodeMove(55, 47, P, 0, 0, 0, 0, 0)
              ELSE encodeMove(15, 23, p, 0, 0, 0, 0, 0)
DoublePush == IF sideToMove = White THEN encodeMove(55, 39, P, 0, 0, 1, 0, 0)
              ELSE encodeMove(15, 31, p, 0, 0, 1, 0, 0)

\* values an entry of the history table holds: untouched, or raised by
\* many searches above the killer scores
HistoryValues == {0, 9500}

\* the search stands at a ply (the first for White, the second for Black)
\* with a generated list to order.  The PV move
\* of the ply is one of the list, none, or a move of another position; the
\* killers are quiet moves, a quiet promotion or none
ScoreInit ==
    \E start \in SearchPositions, value \in HistoryValues,
       flag \in BOOLEAN, follow \in BOOLEAN, pv \in 1 .. 5, first \in 1 .. 3,
       second \in 1 .. 2 :
        LET at == IF start.sideToMove = White THEN 0 ELSE 1 IN
        /\ bitboards = start.bitboards
        /\ occupancies = start.occupancies
        /\ sideToMove = start.sideToMove
        /\ epsq = start.epsq
        /\ castle = start.castle
        /\ st = start.st
        /\ states = start.states
        /\ frames = <<>>
        /\ last = [op |-> "setup", move |-> 0, flag |-> AllMoves, ret |-> 1,
                   direct |-> FALSE, pure |-> TRUE, before |-> start, pre |-> start]
        /\ calls = 0
        /\ PerftIdle
        /\ TablesBuilt
        /\ scorePV = flag
        /\ followPV = follow
        /\ ply = at
        /\ pv_table = [x \in Plies |->
                          IF x # at THEN DoublePush
                          ELSE <<KnightMove, PawnTakesQueen, QuietPromotion, 0,
                                 encodeMove(57, 42, N, 0, 0, 0, 0, 0)>>[pv]]
        /\ killers = [id \in 0 .. 1 |-> [x \in Plies |->
                          IF x # at THEN 0
                          ELSE IF id = 0 THEN <<KingMove, QuietPromotion, 0>>[first]
                          ELSE <<SinglePush, KingMove>>[second]]]
        /\ history = HistoryTable(value)
        /\ MoveList = GenerateMoveList(start)
        /\ scored = NoScore

\* the search scores one move of the generated list
ScoreMove(move) ==
    /\ scored.bonus <= MaxCalls
    /\ scorePV' = scoreMove(move).scorePV
    /\ scored' = [op |-> "scoreMove", move |-> move, ret |-> scoreMove(move).ret,
                  was |-> scorePV,
                  bonus |-> scored.bonus + (IF scoreMove(move).ret = 20000 THEN 1 ELSE 0)]
    /\ UNCHANGED <<followPV, ply, pv_table, killers, history, MoveList>>
    /\ UNCHANGED <<positionVars, callerVars, perftVars, tableVars>>

\* the search enables PV scoring for the list it generated
EnablePV ==
    LET flags == enablePV_scoring(MoveList)
    IN /\ scorePV' = flags.scorePV
       /\ followPV' = flags.followPV
       /\ scored' = [op |-> "enablePV_scoring", move |-> pv_table[ply], ret |-> 0,
                     was |-> scorePV,
                     bonus |-> IF flags.followPV THEN 0 ELSE scored.bonus]
       /\ UNCHANGED <<ply, pv_table, killers, history, MoveList>>
       /\ UNCHANGED <<positionVars, callerVars, perftVars, tableVars>>

ScoreNext ==
    \/ \E count \in 1 .. Len(MoveList) : ScoreMove(MoveList[count])
    \/ EnablePV

SpecScore == ScoreInit /\ [][ScoreNext]_vars

\* r6k/8/8/Q2q1p2/4P3/1BN5/4n3/b2RK3 w - -: every white piece can capture,
\* the black queen can be taken by five of them, and pawn, knight, bishop,
\* rook and queen can all be taken
WhiteCapturePlacement ==
    {<<r, 0>>, <<k, 7>>, <<Q, 24>>, <<q, 27>>, <<p, 29>>, <<P, 36>>, <<B, 41>>, <<N, 42>>,
     <<n, 52>>, <<b, 56>>, <<R, 59>>, <<K, 60>>}

\* the colour mirror of a placement
MirrorPlacement(placement) ==
    {<<(pl[1] + 6) % 12, 8 * (7 - (pl[2] \div 8)) + (pl[2] % 8)>> : pl \in placement}

CapturePositions ==
    {SetUp(WhiteCapturePlacement, White, NoSq, 0, MaxStates),
     SetUp(MirrorPlacement(WhiteCapturePlacement), Black, NoSq, 0, MaxStates)}

\* the search stands at ply 0 with the list generated for a position full
\* of captures; the PV move is the first or the last move of the list or
\* none, there are no killers and the history table is clear
CaptureInit ==
    \E start \in CapturePositions, flag \in BOOLEAN, pv \in 0 .. 2 :
        LET list == GenerateMoveList(start) IN
        /\ bitboards = start.bitboards
        /\ occupancies = start.occupancies
        /\ sideToMove = start.sideToMove
        /\ epsq = start.epsq
        /\ castle = start.castle
        /\ st = start.st
        /\ states = start.states
        /\ frames = <<>>
        /\ last = [op |-> "setup", move |-> 0, flag |-> AllMoves, ret |-> 1,
                   direct |-> FALSE, pure |-> TRUE, before |-> start, pre |-> start]
        /\ calls = 0
        /\ PerftIdle
        /\ TablesBuilt
        /\ scorePV = flag
        /\ followPV = flag
        /\ ply = 0
        /\ pv_table = [x \in Plies |->
                          IF x # 0 \/ pv = 0 THEN 0
                          ELSE IF pv = 1 THEN list[1] ELSE list[Len(list)]]
        /\ killers = [id \in 0 .. 1 |-> [x \in Plies |-> 0]]
        /\ history = HistoryTable(0)
        /\ MoveList = list
        /\ scored = NoScore

SpecCapture == CaptureInit /\ [][ScoreNext]_vars

(***************************************************************************)
(* Attack tables: the program fills them at start-up, before a position is *)
(* set up, and the move generator and isSquareAttacked look them up.       *)
(***************************************************************************)

\* most pieces on the relevant squares in the occupancy of a slider lookup
MaxBlockers == 1

\* the three leaper arrays as the loader zero-initialises them
ZeroLeapers ==
    [PawnAttacks |-> [side \in {White, Black} |-> [square \in Squares |-> {}]],
     KnightAttacks |-> [square \in Squares |-> {}],
     KingAttacks |-> [square \in Squares |-> {}]]

\* the program has started and no table is filled; the board is empty
TablesInit ==
    LET start == SetUp({}, White, NoSq, 0, 0) IN
        /\ bitboards = start.bitboards
        /\ occupancies = start.occupancies
        /\ sideToMove = start.sideToMove
        /\ epsq = start.epsq
        /\ castle = start.castle
        /\ st = start.st
        /\ states = start.states
        /\ frames = <<>>
        /\ last = [op |-> "setup", move |-> 0, flag |-> AllMoves, ret |-> 1,
                   direct |-> FALSE, pure |-> TRUE, before |-> start, pre |-> start]
        /\ calls = 0
        /\ PerftIdle
        /\ SearchIdle
        /\ leapers = ZeroLeapers
        /\ magic = NoMagic
        /\ lookup = NoLookup

\* initLeaperAttacks(): every entry of the three arrays is assigned its mask
InitLeaperAttacks ==
    /\ leapers' = [PawnAttacks |-> [side \in {White, Black} |->
                                       [square \in Squares |-> maskPawnAttacks(side, square)]],
                   KnightAttacks |-> [square \in Squares |-> maskKnightAttacks(square)],
                   KingAttacks |-> [square \in Squares |-> maskKingAttacks(square)]]
    /\ UNCHANGED <<magic, lookup>>
    /\ UNCHANGED <<positionVars, callerVars, perftVars, searchVars>>

\* a read of one entry of a leaper array, as isSquareAttacked and the
\* generator do after start-up
LeaperLookup(kind, side, square) ==
    /\ leapers # ZeroLeapers
    /\ lookup' = [kind |-> kind, side |-> side, square |-> square, occupancy |-> {},
                  index |-> square,
                  attacks |-> CASE kind = "pawn" -> leapers.PawnAttacks[side][square]
                                [] kind = "knight" -> leapers.KnightAttacks[square]
                                [] OTHER -> leapers.KingAttacks[square]]
    /\ UNCHANGED <<leapers, magic>>
    /\ UNCHANGED <<positionVars, callerVars, perftVars, searchVars>>

TablesNext ==
    \/ InitLeaperAttacks
    \/ \E square \in Squares :
          \/ \E side \in {White, Black} : LeaperLookup("pawn", side, square)
          \/ \E kind \in {"knight", "king"} : LeaperLookup(kind, White, square)

SpecTables == TablesInit /\ [][TablesNext]_vars

\* the leaper tables are filled and the start-up turns to the sliders
MagicInit ==
    LET start == SetUp({}, White, NoSq, 0, 0) IN
        /\ bitboards = start.bitboards
        /\ occupancies = start.occupancies
        /\ sideToMove = start.sideToMove
        /\ epsq = start.epsq
        /\ castle = start.castle
        /\ st = start.st
        /\ states = start.states
        /\ frames = <<>>
        /\ last = [op |-> "setup", move |-> 0, flag |-> AllMoves, ret |-> 1,
                   direct |-> FALSE, pure |-> TRUE, before |-> start, pre |-> start]
        /\ calls = 0
        /\ PerftIdle
        /\ SearchIdle
        /\ TablesBuilt

\* the start-up fills the attack table of a slider on one square: for every
\* subset of the relevant-occupancy mask the entry at its magic index is
\* assigned the ray-cast attack set.  magic.table holds every assignment
\* made, as pairs of index and attack set; of the program's 128 tables the
\* model holds one at a time
InitSliderAttacks(kind, square) ==
    /\ magic = NoMagic
    /\ magic' = [kind |-> kind, square |-> square,
                 table |-> {<<SliderIndex(kind, square, occupancy),
                              SliderRayCast(kind, square, occupancy)>> :
                               occupancy \in SUBSET SliderMask(kind, square)}]
    /\ UNCHANGED <<leapers, lookup>>
    /\ UNCHANGED <<positionVars, callerVars, perftVars, searchVars>>

\* the attack sets a slider on the square can have: along each ray it sees
\* up to some square of the ray
RayPrefixes(square, dir) ==
    LET ray == RayTable[square][dir] IN
    IF ray = <<>> THEN {{}} ELSE {{ray[i] : i \in 1 .. stop} : stop \in 1 .. Len(ray)}

AttackSets(kind, square) ==
    IF kind = "rook"
    THEN {e \cup w \cup s \cup n_ : e \in RayPrefixes(square, <<1, 0>>),
                                      w \in RayPrefixes(square, <<-1, 0>>),
                                      s \in RayPrefixes(square, <<0, 1>>),
                                      n_ \in RayPrefixes(square, <<0, -1>>)}
    ELSE {e \cup w \cup s \cup n_ : e \in RayPrefixes(square, <<1, 1>>),
                                      w \in RayPrefixes(square, <<-1, 1>>),
                                      s \in RayPrefixes(square, <<1, -1>>),
                                      n_ \in RayPrefixes(square, <<-1, -1>>)}

\* subsets of squares with at most count elements
RECURSIVE UpTo(_, _)
UpTo(squares, count) ==
    IF count = 0 THEN {{}}
    ELSE LET fewer == UpTo(squares, count - 1)
         IN fewer \cup {some \cup {sq} : some \in fewer, sq \in squares}

\* board occupancies of the lookups: the slider on its square and at most
\* MaxBlockers pieces on the nearest and the last squares of its rays
LookupOccupancies(kind, square) ==
    LET rays == {RayTable[square][dir] : dir \in IF kind = "rook" THEN RookDirs ELSE BishopDirs}
        probe == UNION {{ray[1], ray[Len(ray)]} : ray \in rays \ {<<>>}}
    IN {blockers \cup {square} : blockers \in UpTo(probe, MaxBlockers)}

\* get(Rook|Bishop)Attacks: the entry at the magic index of the masked
\* occupancy; when several assignments went to the entry, any of them may
\* be the one that stayed
SliderLookup(occupancy, index) ==
    /\ magic # NoMagic
    /\ \E attacks \in AttackSets(magic.kind, magic.square) :
          /\ <<index, attacks>> \in magic.table
          /\ lookup' = [kind |-> magic.kind, side |-> White, square |-> magic.square,
                        occupancy |-> occupancy, index |-> index, attacks |-> attacks]
    /\ UNCHANGED <<leapers, magic>>
    /\ UNCHANGED <<positionVars, callerVars, perftVars, searchVars>>

MagicNext ==
    \/ \E kind \in {"rook", "bishop"}, square \in Squares : InitSliderAttacks(kind, square)
    \/ \E occupancy \in LookupOccupancies(magic.kind, magic.square) :
          \E index \in {SliderIndex(magic.kind, magic.square, occupancy)} :
              SliderLookup(occupancy, index)

SpecMagic == MagicInit /\ [][MagicNext]_vars

(***************************************************************************)
(* Attack queries: isSquareAttacked(square, side) as the generator and the *)
(* legality test call it on the position that is set up.                   *)
(***************************************************************************)

\* r2q2k1/1b4p1/2n5/4p3/2B1P3/5N2/6P1/R2Q2K1 w - -: every kind of piece of
\* both sides, sliders with open and with blocked lines
AttackPlacement ==
    {<<q, 3>>, <<k, 6>>, <<r, 0>>, <<b, 9>>, <<p, 14>>, <<n, 18>>, <<p, 28>>,
     <<B, 34>>, <<P, 36>>, <<N, 45>>, <<P, 54>>, <<R, 56>>, <<Q, 59>>, <<K, 62>>}

AttackPositions ==
    StartPositions \cup PerftPositions \cup SearchPositions
    \cup {SetUp(AttackPlacement, White, NoSq, 0, MaxStates)}

AttackInit ==
    \E start \in AttackPositions :
        /\ bitboards = start.bitboards
        /\ occupancies = start.occupancies
        /\ sideToMove = start.sideToMove
        /\ epsq = start.epsq
        /\ castle = start.castle
        /\ st = start.st
        /\ states = start.states
        /\ frames = <<>>
        /\ last = [op |-> "setup", move |-> 0, flag |-> AllMoves, ret |-> 1,
                   direct |-> FALSE, pure |-> TRUE, before |-> start, pre |-> start]
        /\ calls = 0
        /\ PerftIdle
        /\ SearchIdle
        /\ TablesBuilt

\* a call of isSquareAttacked(square, side): it assigns to no global.
\* lookup keeps the arguments, the result and the position at the call
IsSquareAttacked(square, side) ==
    /\ lookup' = [kind |-> "isSquareAttacked", side |-> side, square |-> square,
                  occupancy |-> occupancies[Both], index |-> 0, attacks |-> {},
                  ret |-> isSquareAttacked(Position, square, side), before |-> Position]
    /\ UNCHANGED <<leapers, magic>>
    /\ UNCHANGED <<positionVars, callerVars, perftVars, searchVars>>

AttackNext == \E square \in Squares, side \in {White, Black} : IsSquareAttacked(square, side)

SpecAttack == AttackInit /\ [][AttackNext]_vars

(***************************************************************************)
(* Move encoding: the generator encodes a move with encodeMove and the     *)
(* rest of the program reads its fields with the getMove macros.           *)
(***************************************************************************)

\* the program has started, no move has been encoded
EncodeInit ==
    LET start == SetUp({}, White, NoSq, 0, 0) IN
        /\ bitboards = start.bitboards
        /\ occupancies = start.occupancies
        /\ sideToMove = start.sideToMove
        /\ epsq = start.epsq
        /\ castle = start.castle
        /\ st = start.st
        /\ states = start.states
        /\ frames = <<>>
        /\ last = [op |-> "setup", move |-> 0, flag |-> AllMoves, ret |-> 1,
                   direct |-> FALSE, pure |-> TRUE, before |-> start, pre |-> start]
        /\ calls = 0
        /\ PerftIdle
        /\ SearchIdle
        /\ TablesBuilt

\* field values of the encoded moves: the ends of each range and a value
\* inside it; flags is <<capture, double, ep, castling>>
EncodedSquares == {0, 26, 63}

EncodedPieces == {P, K, k}

EncodedPromos == {0, Q, n, k}

EncodedFlags ==
    {<<0, 0, 0, 0>>, <<1, 0, 0, 0>>, <<0, 1, 0, 0>>, <<0, 0, 1, 0>>, <<0, 0, 0, 1>>,
     <<1, 1, 1, 1>>}

\* a move is encoded; lookup keeps the fields and the encoded move
EncodeMove(fromSq, toSq, piece, promo, flags) ==
    /\ lookup' = [kind |-> "encodeMove", fromSq |-> fromSq, toSq |-> toSq, piece |-> piece,
                  promo |-> promo, flags |-> flags,
                  move |-> encodeMove(fromSq, toSq, piece, promo, flags[1], flags[2],
                                      flags[3], flags[4])]
    /\ UNCHANGED <<leapers, magic>>
    /\ UNCHANGED <<positionVars, callerVars, perftVars, searchVars>>

EncodeNext ==
    \E fromSq \in EncodedSquares, toSq \in EncodedSquares, piece \in EncodedPieces,
       promo \in EncodedPromos, flags \in EncodedFlags :
        EncodeMove(fromSq, toSq, piece, promo, flags)

SpecEncode == EncodeInit /\ [][EncodeNext]_vars

(***************************************************************************)
(* The move list: MoveList_t is int moves[256] followed by int count, and  *)
(* addMove stores at moves[count] and increments count.  Here the list is  *)
(* a record of the slots written so far and the count.                     *)
(***************************************************************************)

\* int moves[256]
MoveListSlots == 256

\* calls of addMove in one behaviour
MaxAdded == 3

\* addMove(MoveList, move): MoveList.moves[MoveList.count] = move;
\* MoveList.count++.  Nothing is tested.  With count = 256 the store is past
\* the end of the array, which is undefined: it lands on count, the member
\* that follows the array, so that count becomes move and then move + 1, or
\* it lands elsewhere and count becomes 257.
addMove(list, move, landing) ==
    IF list.count \in 0 .. MoveListSlots - 1
    THEN [moves |-> [slot \in DOMAIN list.moves \cup {list.count} |->
                       IF slot = list.count THEN move ELSE list.moves[slot]],
          count |-> list.count + 1]
    ELSE IF landing = "count"
         THEN [list EXCEPT !.count = move + 1]
         ELSE [list EXCEPT !.count = @ + 1]

\* where a store past the end of the array can land
Landings == {"count", "elsewhere"}

\* the moves that are added
AddedMoves == {KnightMove, KingMove, DoublePush}

\* the list after slots calls of addMove on an empty list
AddedList(slots) == [moves |-> [slot \in 0 .. slots - 1 |-> encodeMove(slot % 64, (slot + 9) % 64, slot \div 64, 0, 0, 0, 0, 0)],
                     count |-> slots]

\* the list is empty, or nearly full, or full
AddInit ==
    LET start == SetUp({}, White, NoSq, 0, 0) IN
        /\ bitboards = start.bitboards
        /\ occupancies = start.occupancies
        /\ sideToMove = start.sideToMove
        /\ epsq = start.epsq
        /\ castle = start.castle
        /\ st = start.st
        /\ states = start.states
        /\ frames = <<>>
        /\ last = [op |-> "setup", move |-> 0, flag |-> AllMoves, ret |-> 1,
                   direct |-> FALSE, pure |-> TRUE, before |-> start, pre |-> start]
        /\ calls = 0
        /\ PerftIdle
        /\ scorePV = FALSE /\ followPV = FALSE /\ ply = 0
        /\ pv_table = [at \in Plies |-> 0]
        /\ killers = [id \in 0 .. 1 |-> [at \in Plies |-> 0]]
        /\ history = HistoryTable(0)
        /\ MoveList \in {AddedList(slots) : slots \in {0, MoveListSlots - 2, MoveListSlots - 1, MoveListSlots}}
        /\ scored = NoScore
        /\ TablesBuilt

\* addMove is called; lookup keeps the list before the call and the slot
\* the store was aimed at.  The code has no assertion, so none fails.
AddMove(move, landing) ==
    /\ calls < MaxAdded
    /\ MoveList.count <= MoveListSlots
    /\ MoveList' = addMove(MoveList, move, landing)
    /\ lookup' = [kind |-> "addMove", move |-> move, slot |-> MoveList.count,
                  asserted |-> FALSE, before |-> MoveList]
    /\ calls' = calls + 1
    /\ UNCHANGED <<frames, last>>
    /\ UNCHANGED <<scorePV, followPV, ply, pv_table, killers, history, scored>>
    /\ UNCHANGED <<leapers, magic>>
    /\ UNCHANGED <<positionVars, perftVars>>

AddNext == \E move \in AddedMoves, landing \in Landings : AddMove(move, landing)

SpecAddMove == AddInit /\ [][AddNext]_vars

(***************************************************************************)
(* Bit scan: ls1b applied to non-zero bitboards.                           *)
(***************************************************************************)

\* the program has started, ls1b has not been called
ScanInit ==
    LET start == SetUp({}, White, NoSq, 0, 0) IN
        /\ bitboards = start.bitboards
        /\ occupancies = start.occupancies
        /\ sideToMove = start.sideToMove
        /\ epsq = start.epsq
        /\ castle = start.castle
        /\ st = start.st
        /\ states = start.states
        /\ frames = <<>>
        /\ last = [op |-> "setup", move |-> 0, flag |-> AllMoves, ret |-> 1,
                   direct |-> FALSE, pure |-> TRUE, before |-> start, pre |-> start]
        /\ calls = 0
        /\ PerftIdle
        /\ SearchIdle
        /\ TablesBuilt

\* the bitboards that are scanned: every single bit, every bit with all
\* the bits above it, with the top bit, with its neighbour, and with the
\* bit one rank up
ScannedBitboards ==
    UNION {{ {low}, low .. 63, {low, 63}, {low, low + 1} \cap Squares,
             {low, low + 8} \cap Squares } : low \in Squares}

\* ls1b(bb) is called; lookup keeps the argument and the result
Ls1b(bb) ==
    /\ lookup' = [kind |-> "ls1b", occupancy |-> bb, isolated |-> bb \cap Negate(bb),
                  ret |-> ls1b(bb)]
    /\ UNCHANGED <<leapers, magic>>
    /\ UNCHANGED <<positionVars, callerVars, perftVars, searchVars>>

ScanNext == \E bb \in ScannedBitboards : Ls1b(bb)

SpecScan == ScanInit /\ [][ScanNext]_vars

(***************************************************************************)
(* Vocabulary of the properties.                                           *)
(***************************************************************************)
\* the call that completed last is a makeMove that returned success
MadeOk == last.op = "make" /\ last.ret = 1

\* the call that completed last is an undoMove that ran to its end (the
\* pointer it follows was not NULL)
Undone == last.op = "undo" /\ st # NULL

\* the occupancies of pos are the ORs of its piece bitboards
OccupanciesConsistent(pos) ==
    /\ pos.occupancies[White] = UNION {pos.bitboards[piece] : piece \in P .. K}
    /\ pos.occupancies[Black] = UNION {pos.bitboards[piece] : piece \in p .. k}
    /\ pos.occupancies[Both] = pos.occupancies[White] \cup pos.occupancies[Black]

\* no square is set in two piece bitboards
OnePiecePerSquare(pos) ==
    \A one \in Pieces, two \in Pieces :
        one # two => pos.bitboards[one] \cap pos.bitboards[two] = {}

OneKingEach(pos) ==
    Cardinality(pos.bitboards[K]) = 1 /\ Cardinality(pos.bitboards[k]) = 1

Abs(x) == IF x < 0 THEN -x ELSE x

\* file 0..7 = a..h and row 0..7 = rank 8..1 of a square
FileOf(sq) == sq % 8

RowOf(sq) == sq \div 8

\* the squares strictly between two squares of one line (rank, file or diagonal)
Between(from, to) ==
    LET df == FileOf(to) - FileOf(from)
        dr == RowOf(to) - RowOf(from)
        len == IF Abs(df) > Abs(dr) THEN Abs(df) ELSE Abs(dr)
    IN {(RowOf(from) + i * (dr \div len)) * 8 + FileOf(from) + i * (df \div len) :
           i \in 1 .. len - 1}

\* chess geometry: a piece of kind `piece` on `from` attacks `to`, the
\* squares of `blockers` stopping sliders
Attacks(piece, from, to, blockers) ==
    LET df == FileOf(to) - FileOf(from)
        dr == RowOf(to) - RowOf(from)
        diagonal == Abs(df) = Abs(dr) /\ df # 0
        straight == (df = 0) # (dr = 0)
        clear == Between(from, to) \cap blockers = {}
    IN CASE piece = P -> dr = -1 /\ Abs(df) = 1
         [] piece = p -> dr = 1 /\ Abs(df) = 1
         [] piece % 6 = N -> {Abs(df), Abs(dr)} = {1, 2}
         [] piece % 6 = B -> diagonal /\ clear
         [] piece % 6 = R -> straight /\ clear
         [] piece % 6 = Q -> (diagonal \/ straight) /\ clear
         [] OTHER -> Abs(df) <= 1 /\ Abs(dr) <= 1 /\ from # to

\* some piece of `side` standing on the board of pos attacks square `to`
AttackedBy(pos, side, to) ==
    LET blockers == UNION {pos.bitboards[piece] : piece \in Pieces} IN
    \E piece \in (IF side = White THEN P .. K ELSE p .. k) :
        \E from \in pos.bitboards[piece] : Attacks(piece, from, to, blockers)

\* the king of `side` is attacked by the other side
InCheck(pos, side) ==
    \E sq \in pos.bitboards[IF side = White THEN K ELSE k] :
        AttackedBy(pos, Opponent(side), sq)

\* a legal position: consistent occupancies, one piece per square, one king
\* each, and the side that is not to move is not in check
LegalPosition(pos) ==
    /\ OccupanciesConsistent(pos)
    /\ OnePiecePerSquare(pos)
    /\ OneKingEach(pos)
    /\ ~InCheck(pos, Opponent(pos.sideToMove))

HasRight(rights, bit) == (rights \div bit) % 2 = 1

(***************************************************************************)
(* Properties.                                                             *)
(***************************************************************************)
\* C1: from a legal position, undoMove(m) called immediately after a
\* makeMove(m, AllMoves) that returned success leaves the piece bitboards,
\* occupancies, side to move, en-passant square and castling rights equal
\* to their values before makeMove.
C1_RoundTrip ==
    (Undone /\ last.direct /\ last.flag = AllMoves /\ LegalPosition(last.pre))
        => saveBoard(Position) = saveBoard(last.pre)

\* C2: from a position with consistent occupancies, after a makeMove that
\* returned success and after an undoMove the occupancies are again the ORs
\* of the piece bitboards.
C2_OccupancyConsistency ==
    ((MadeOk \/ Undone) /\ OccupanciesConsistent(last.before))
        => OccupanciesConsistent(Position)

\* C3: from a legal position, after any sequence of successful makeMove
\* calls and matching undoMove calls no square is set in more than one
\* piece bitboard.
C3_OnePiecePerSquare ==
    (last.pure /\ st # NULL) => OnePiecePerSquare(Position)

\* C4: from a legal position, after a successful makeMove and after the
\* undoMove of a successful makeMove, bitboards[K] and bitboards[k] each
\* hold exactly one bit.
C4_KingCount ==
    /\ (MadeOk /\ LegalPosition(last.before)) => OneKingEach(Position)
    /\ (Undone /\ last.direct /\ LegalPosition(last.pre)) => OneKingEach(Position)

\* C5: after a successful makeMove and after an undoMove, epsq is NoSq, or
\* on rank 3 (squares 40..47) with Black to move, or on rank 6 (squares
\* 16..23) with White to move.
C5_EpSquare ==
    (MadeOk \/ Undone)
        => \/ epsq = NoSq
           \/ sideToMove = Black /\ epsq \in 40 .. 47
           \/ sideToMove = White /\ epsq \in 16 .. 23

\* C6: a makeMove call sets no castling-right bit: every bit of castle
\* after the call was set before it.
C6_CastleMonotone ==
    last.op = "make"
        => \A bit \in {1, 2, 4, 8} : HasRight(castle, bit) => HasRight(last.before.castle, bit)

C6_Witness ==
    /\ last.op = "make"
    /\ castle # last.before.castle
    /\ castle # 0

\* C7 as stated: whenever makeMove returns 0, under either filter, the
\* piece bitboards, occupancies, side to move, en-passant square and
\* castling rights equal their values before the call.
C7_FailureUnchanged ==
    (last.op = "make" /\ last.ret = 0) => saveBoard(Position) = saveBoard(last.before)

\* the makeMove that completed last was refused by the CaptureMoves filter
FilteredOut == last.flag = CaptureMoves /\ getMoveCapture(last.move) = 0

\* C7 amended: when makeMove returns 0 because the CaptureMoves filter
\* refuses a move without capture flag the position is unchanged; in every
\* other case of a 0 result the move stays applied (the moving piece has
\* left its source square and the side to move is flipped), and it is the
\* caller's takeBack() right after the call that brings back the values
\* the position had before it.
C7_FailureNeedsTakeBack ==
    /\ (last.op = "make" /\ last.ret = 0 /\ FilteredOut)
           => saveBoard(Position) = saveBoard(last.before)
    /\ (last.op = "make" /\ last.ret = 0 /\ ~FilteredOut)
           => /\ sideToMove = 1 - last.before.sideToMove
              /\ getMoveSource(last.move) \notin bitboards[getMovePiece(last.move)]
    /\ (last.op = "takeBack" /\ last.direct /\ last.ret = 0)
           => saveBoard(Position) = saveBoard(last.pre)

C7_Witness ==
    /\ last.op = "takeBack" /\ last.direct
    /\ last.ret = 0 /\ last.flag = AllMoves
    /\ saveBoard(last.before) # saveBoard(last.pre)
    /\ saveBoard(Position) = saveBoard(last.pre)

\* C8: makeMove(m, CaptureMoves) for a move whose capture flag is clear
\* returns 0 and changes neither the position nor the StateInfo entries.
C8_CaptureOnlyRejectsQuiet ==
    (last.op = "make" /\ FilteredOut) => last.ret = 0 /\ Position = last.before

C8_Witness ==
    /\ last.op = "make" /\ FilteredOut
    /\ makeMove(last.before, last.move, AllMoves).ret = 1

\* C9: for a move with the capture flag, makeMove(m, CaptureMoves) leaves
\* the position and returns the value that makeMove(m, AllMoves) does.
C9_CaptureOnlyLikeAllMoves ==
    (last.op = "make" /\ last.flag = CaptureMoves /\ getMoveCapture(last.move) # 0)
        => /\ Position = MakeAllMoves(last.before, last.move).pos
           /\ last.ret = MakeAllMoves(last.before, last.move).ret

\* C10: called in a legal position, makeMove(m, AllMoves) returns 1 exactly
\* when, in the position it leaves, the king of the side that moved is not
\* attacked by a piece of the side now to move, and 0 exactly when it is.
C10_LegalityResult ==
    (last.op = "make" /\ last.flag = AllMoves /\ LegalPosition(last.before))
        => (last.ret = 1 <=> ~InCheck(Position, last.before.sideToMove))

C10_Witness ==
    /\ last.op = "make" /\ last.flag = AllMoves /\ LegalPosition(last.before)
    /\ last.ret = 0
    /\ InCheck(Position, last.before.sideToMove)

\* the call that completed last is an undoMove called right after a
\* makeMove(m, AllMoves) that returned success, in a legal position
UndoneDirectly ==
    /\ Undone /\ last.direct
    /\ last.flag = AllMoves /\ last.ret = 1
    /\ LegalPosition(last.pre)

\* C11: makeMove(m, AllMoves) pushes exactly one StateInfo entry (st
\* designates an entry one deeper than before), undoMove pops exactly one,
\* so an undoMove right after a makeMove leaves st where it was before the
\* makeMove, and st never designates an entry below the initial one.
C11_HistoryStack ==
    /\ (last.op = "make" /\ last.flag = AllMoves) => st = last.before.st + 1
    /\ last.op = "undo" => st = last.before.st - 1
    /\ (last.op = "undo" /\ last.direct /\ last.flag = AllMoves) => st = last.pre.st
    /\ st >= MaxStates

\* C12: after a successful makeMove(m, AllMoves) followed by undoMove(m),
\* epsq and castle have the values they had before the makeMove.
C12_UndoRestoresEpCastle ==
    UndoneDirectly => epsq = last.pre.epsq /\ castle = last.pre.castle

\* C13: after makeMove then undoMove of a capturing move the captured piece
\* is back on the square it was taken from (the target, or for en passant
\* the pawn square behind it), in its piece bitboard and in the occupancy
\* of its side.
C13_UndoRestoresCaptured ==
    (UndoneDirectly /\ getMoveCapture(last.move) # 0)
        => LET mover == last.pre.sideToMove
               toSq == getMoveTarget(last.move)
               capsq == IF getEp(last.move) = 0 THEN toSq
                        ELSE IF mover = White THEN toSq + 8 ELSE toSq - 8
           IN \A victim \in Pieces :
                  capsq \in last.pre.bitboards[victim]
                      => /\ capsq \in bitboards[victim]
                         /\ capsq \in occupancies[Opponent(mover)]

\* C14: makeMove then undoMove of a castling move puts king and rook of the
\* castling side back on their squares, in that side's piece bitboards and
\* occupancy, and changes no bitboard and no occupancy of the other side.
C14_UndoCastling ==
    (UndoneDirectly /\ getCastle(last.move) # 0)
        => LET side == last.pre.sideToMove
               king == IF side = White THEN K ELSE k
               rook == IF side = White THEN R ELSE r
               others == IF side = White THEN p .. k ELSE P .. K
           IN /\ bitboards[king] = last.pre.bitboards[king]
              /\ bitboards[rook] = last.pre.bitboards[rook]
              /\ occupancies[side] = last.pre.occupancies[side]
              /\ \A piece \in others : bitboards[piece] = last.pre.bitboards[piece]
              /\ occupancies[Opponent(side)] = last.pre.occupancies[Opponent(side)]

\* the number of sequences of `depth` consecutive legal moves from pos: a
\* legal move is a generated move after which the king of the side that
\* moved is not attacked
RECURSIVE LegalLeaves(_, _), LeavesFrom(_, _, _, _)
LegalLeaves(pos, depth) ==
    IF depth = 0 THEN 1 ELSE LeavesFrom(pos, GenerateMoveList(pos), 1, depth)

LeavesFrom(pos, moves, i, depth) ==
    IF i > Len(moves) THEN 0
    ELSE LET after == MakeAllMoves(pos, moves[i]).pos
         IN (IF InCheck(after, pos.sideToMove) THEN 0 ELSE LegalLeaves(after, depth - 1))
                + LeavesFrom(pos, moves, i + 1, depth)

\* published perft results of Position 3 for the depths 0, 1, 2, 3
Position3Perft == <<1, 14, 191, 2812>>

\* the call under way is fn(depth) and has returned
Returned(fn) == run.fn = fn /\ run.status = "returned"

\* C15: perft(d), d >= 0, increases nodes by the number of sequences of d
\* consecutive legal moves from the position it is called in (1 for d = 0,
\* nothing for moves makeMove rejects), which for Position 3 is the
\* published perft result.
C15_PerftCountsLeaves ==
    Returned("perft")
        => /\ nodes = run.nodes + LegalLeaves(last.pre, run.depth)
           /\ last.pre = Position3 => nodes - run.nodes = Position3Perft[run.depth + 1]

C15_Witness ==
    /\ Returned("perft")
    /\ run.depth = 2 /\ run.nodes = 3
    /\ last.pre = Position3
    /\ nodes = 3 + 191
    /\ MakeAllMoves(last.pre, encodeMove(25, 17, P, 0, 0, 0, 0, 0)).ret = 0

\* the root moves makeMove accepts, in the order of the generated list
RootMoves(pos) ==
    SelectSeq(GenerateMoveList(pos), LAMBDA move : MakeAllMoves(pos, move).ret = 1)

RECURSIVE SumPrevNodes(_)
SumPrevNodes(lines) ==
    IF lines = <<>> THEN 0 ELSE lines[1].PrevNodes + SumPrevNodes(Tail(lines))

\* C16: dperft(depth), depth >= 1, sets nodes to 0, prints one line
\* `<move>: <subtotal>` for each root move makeMove accepts, in generation
\* order, the subtotal being what perft(depth - 1) adds to nodes under that
\* move, and the Nodes total it prints last is the sum of the subtotals.
C16_DividePerft ==
    (run.fn = "dperft" /\ run.depth >= 1)
        => /\ run.status # "aborted"
           /\ run.status = "returned"
                  => LET lines == SubSeq(output, 1, Len(output) - 1)
                         roots == RootMoves(last.pre)
                     IN /\ Len(lines) = Len(roots)
                        /\ \A i \in 1 .. Len(roots) :
                               /\ lines[i].move = prettyMove(roots[i])
                               /\ lines[i].PrevNodes =
                                      LegalLeaves(MakeAllMoves(last.pre, roots[i]).pos,
                                                  run.depth - 1)
                        /\ output[Len(output)].Nodes = SumPrevNodes(lines)
                        /\ nodes = SumPrevNodes(lines)


\* the fabricated list of the ordering test: the PV move, pawn takes queen,
\* queen takes pawn, the quiet promotion, killer 1, killer 2, a quiet move
OrderingList ==
    <<KnightMove, PawnTakesQueen, QueenTakesPawn, QuietPromotion, KingMove, SinglePush,
      DoublePush>>

\* the tables hold what the ordering test sets up for OrderingList
OrderingSetUp ==
    /\ pv_table[ply] = KnightMove
    /\ killers[0][ply] = KingMove
    /\ killers[1][ply] = SinglePush
    /\ history[getMovePiece(DoublePush)][getMoveTarget(DoublePush)] = 0

\* C17: scoreMove puts every move in its bucket: the PV move of the ply
\* scores 20000 when PV scoring is enabled, and of the other moves a capture
\* scores in 10100..10605, a non-capture promotion 10000, the first killer
\* 9000, the second killer 8000 and a quiet move with history 0 scores 0;
\* and the scores of the list (PV, PxQ, QxP, quiet promotion, killer 1,
\* killer 2, quiet) are 20000, 10505, 10101, 10000, 9000, 8000, 0, strictly
\* decreasing, so that sorting by descending score leaves that order
C17_OrderingBuckets ==
    /\ scored.op = "scoreMove" =>
         LET move == scored.move IN
         CASE scored.was /\ pv_table[ply] = move -> scored.ret = 20000
           [] getMoveCapture(move) # 0 -> scored.ret \in 10100 .. 10605
           [] getPromo(move) # 0 -> scored.ret = 10000
           [] killers[0][ply] = move -> scored.ret = 9000
           [] killers[1][ply] = move -> scored.ret = 8000
           [] OTHER -> history[getMovePiece(move)][getMoveTarget(move)] = 0 => scored.ret = 0
    /\ scorePV /\ OrderingSetUp =>
         [i \in 1 .. 7 |-> scoreMove(OrderingList[i]).ret]
            = <<20000, 10505, 10101, 10000, 9000, 8000, 0>>

\* the second killer of the test list was scored 8000 while PV scoring was on
C17_Witness ==
    /\ OrderingSetUp
    /\ scored.op = "scoreMove" /\ scored.was /\ scorePV
    /\ scored.move = SinglePush /\ scored.ret = 8000
    /\ \A i \in 1 .. 7 : \E count \in 1 .. Len(MoveList) : MoveList[count] = OrderingList[i]

C19_LeaperSymmetry ==
    leapers # ZeroLeapers =>
        \A s \in Squares, t \in Squares :
            /\ \A c \in {White, Black} :
                  t \in leapers.PawnAttacks[c][s] <=> s \in leapers.PawnAttacks[1 - c][t]
            /\ t \in leapers.KnightAttacks[s] <=> s \in leapers.KnightAttacks[t]
            /\ t \in leapers.KingAttacks[s] <=> s \in leapers.KingAttacks[t]

\* after the tables were filled the knight on g1 was looked up: it attacks
\* e2, f3 and h3, and the knights on these three squares attack g1
C19_Witness ==
    /\ leapers # ZeroLeapers
    /\ lookup.kind = "knight" /\ lookup.square = 62 /\ lookup.attacks = {45, 47, 52}
    /\ \A t \in lookup.attacks : 62 \in leapers.KnightAttacks[t]
    /\ leapers.PawnAttacks[White][52] = {43, 45}
    /\ 52 \in leapers.PawnAttacks[Black][43] \cap leapers.PawnAttacks[Black][45]

\* every assignment of the table that is held went to a different entry
NoCollision ==
    Cardinality({entry[1] : entry \in magic.table}) = Cardinality(magic.table)

\* C20: the magic numbers are a perfect hash: for the square s of the table
\* that is held, RelevantBits[s] is the number of squares of the mask M(s),
\* the index of every subset of M(s) is below 2^RelevantBits[s], two subsets
\* have the same index only if their ray-cast attack sets are equal, and a
\* lookup returns the ray-cast attack set of the occupancy it is made with
C20_MagicPerfectHash ==
    /\ magic # NoMagic =>
         /\ SliderBits(magic.kind, magic.square)
              = Cardinality(SliderMask(magic.kind, magic.square))
         /\ \A entry \in magic.table :
               entry[1] \in 0 .. Pow2(SliderBits(magic.kind, magic.square)) - 1
         /\ NoCollision
    /\ lookup.kind \in {"rook", "bishop"} =>
         lookup.attacks = SliderRayCast(lookup.kind, lookup.square, lookup.occupancy)

\* the table of the rook on a1 was filled from the 4096 subsets of its mask,
\* each at an index of its own, and looked up with the rook on a1 and a
\* piece on a2: the rook sees a2 and the first rank
C20_Witness ==
    /\ magic.kind = "rook" /\ magic.square = 56
    /\ Cardinality(SUBSET SliderMask("rook", 56)) = 4096
    /\ Cardinality(magic.table) = 4096
    /\ lookup.kind = "rook" /\ lookup.occupancy = {48, 56}
    /\ lookup.attacks = {48} \cup (57 .. 63)

\* some piece of `side` in the bitboards of pos attacks square `to`, sliders
\* being stopped by the squares of the combined occupancy
AttackedGiven(pos, side, to) ==
    \E piece \in (IF side = White THEN P .. K ELSE p .. k) :
        \E from \in pos.bitboards[piece] : Attacks(piece, from, to, pos.occupancies[Both])

\* C21: isSquareAttacked(sq, side) returns true iff at least one pawn, knight,
\* bishop, rook, queen or king of the side attacks sq given the combined
\* occupancy, and the call leaves the position as it was
C21_AttackQuery ==
    lookup.kind = "isSquareAttacked" =>
        /\ lookup.ret <=> AttackedGiven(lookup.before, lookup.side, lookup.square)
        /\ Position = lookup.before

\* a8 is asked about for White: the rook on a1 sees it along the open file;
\* d5 is attacked by the bishop on c4 and g4 by no white piece, the knight
\* on f3 stopping the queen; d4 is attacked by Black and e6 is not
C21_Witness ==
    /\ bitboards = SetUp(AttackPlacement, White, NoSq, 0, MaxStates).bitboards
    /\ lookup.kind = "isSquareAttacked" /\ lookup.side = White
    /\ lookup.square = 0 /\ lookup.ret
    /\ isSquareAttacked(Position, 27, White) /\ ~isSquareAttacked(Position, 38, White)
    /\ isSquareAttacked(Position, 35, Black) /\ ~isSquareAttacked(Position, 20, Black)

\* the bits low .. low + width - 1 of a number, as a number
BitField(number, low, width) == (number \div Pow2(low)) % Pow2(width)

\* C22: the encoded move is below 2^24 and holds source, target, piece and
\* promotion at bits 0-5, 6-11, 12-15 and 16-19 and the capture, double
\* push, en-passant and castling flags at bits 20, 21, 22 and 23;
\* getMoveSource, getMoveTarget, getMovePiece and getPromo return the
\* encoded values, and getMoveCapture, getDoublePush, getEp and getCastle
\* are non-zero iff their flag was 1
C22_EncodingRoundTrip ==
    lookup.kind = "encodeMove" =>
        LET move == lookup.move IN
        /\ move \in 0 .. Pow2(24) - 1
        /\ BitField(move, 0, 6) = lookup.fromSq
        /\ BitField(move, 6, 6) = lookup.toSq
        /\ BitField(move, 12, 4) = lookup.piece
        /\ BitField(move, 16, 4) = lookup.promo
        /\ \A i \in 1 .. 4 : BitField(move, 19 + i, 1) = lookup.flags[i]
        /\ getMoveSource(move) = lookup.fromSq
        /\ getMoveTarget(move) = lookup.toSq
        /\ getMovePiece(move) = lookup.piece
        /\ getPromo(move) = lookup.promo
        /\ getMoveCapture(move) # 0 <=> lookup.flags[1] = 1
        /\ getDoublePush(move) # 0 <=> lookup.flags[2] = 1
        /\ getEp(move) # 0 <=> lookup.flags[3] = 1
        /\ getCastle(move) # 0 <=> lookup.flags[4] = 1

\* the move with every field at its largest value was encoded: 2^24 - 1
\* but for the bits that 63, 63, 11, 11 leave clear
C22_Witness ==
    /\ lookup.kind = "encodeMove"
    /\ lookup.fromSq = 63 /\ lookup.toSq = 63 /\ lookup.piece = k /\ lookup.promo = k
    /\ lookup.flags = <<1, 1, 1, 1>>
    /\ lookup.move = 16498687
    /\ getPromo(lookup.move) = 11 /\ getCastle(lookup.move) = 8388608

\* the call that completed last is a makeMove that applied its move: one
\* with the flag AllMoves, or with CaptureMoves and a capture
Applied == last.op = "make" /\ (last.flag = AllMoves \/ getMoveCapture(last.move) # 0)

\* castling rights as a set of the bits 1 (white O-O), 2 (white O-O-O),
\* 4 (black O-O) and 8 (black O-O-O)
RightsOf(rights) == {bit \in {1, 2, 4, 8} : HasRight(rights, bit)}

\* the rights a move from or to the square takes away
ClearedBy(sq) ==
    CASE sq = 56 -> {2}
      [] sq = 63 -> {1}
      [] sq = 60 -> {1, 2}
      [] sq = 0 -> {8}
      [] sq = 7 -> {4}
      [] sq = 4 -> {4, 8}
      [] OTHER -> {}

\* C23: after makeMove has applied a move from square f to square t, castle
\* is the previous castle AND CastlingRights[f] AND CastlingRights[t]: the
\* rights held before less those a1, h1, e1, a8, h8 and e8 clear, the table
\* being all-ones on the other 58 squares; a capture landing on a corner
\* rook square removes that rook's right
C23_CastlingRightsUpdate ==
    /\ \A sq \in Squares : RightsOf(CastlingRights[sq]) = {1, 2, 4, 8} \ ClearedBy(sq)
    /\ Cardinality({sq \in Squares : CastlingRights[sq] = 15}) = 58
    /\ Applied =>
         /\ castle \in 0 .. 15
         /\ RightsOf(castle) = (RightsOf(last.before.castle)
                                  \ ClearedBy(getMoveSource(last.move)))
                                  \ ClearedBy(getMoveTarget(last.move))

\* the knight on b6 took the rook on a8 and Black lost the right to castle
\* queen side, the last right that was held
C23_Witness ==
    /\ Applied /\ last.ret = 1
    /\ last.move = encodeMove(17, 0, N, 0, 1, 0, 0, 0)
    /\ last.before.castle = 8 /\ 0 \in last.before.bitboards[r]
    /\ castle = 0

\* C24: addMove never writes outside slots 0..255 of the move list, and a
\* call on a list whose count is already 256 fails an assertion and leaves
\* the list as it was
C24_MoveListBound ==
    lookup.kind = "addMove" =>
        /\ lookup.slot \in 0 .. MoveListSlots - 1
        /\ lookup.before.count = MoveListSlots => lookup.asserted /\ MoveList = lookup.before

\* C25: for a non-zero bitboard ls1b returns the index of its lowest set
\* bit: b & -b is that bit alone, and the De Bruijn lookup
\* INDEX64[((b & -b) * DEBRUIJN64 mod 2^64) >> 58] of bit i alone is i, for
\* every i in 0..63
C25_LowestSetBit ==
    /\ \A low \in Squares :
         INDEX64[MulHigh12(Limbs({low}), DEBRUIJN64) \div 64 + 1] = low
    /\ lookup.kind = "ls1b" /\ lookup.occupancy # {} =>
         /\ lookup.ret \in lookup.occupancy
         /\ \A other \in lookup.occupancy : lookup.ret <= other
         /\ lookup.isolated = {lookup.ret}

\* ls1b of the bitboard with the bits 37 to 63 set has returned 37
C25_Witness ==
    /\ lookup.kind = "ls1b"
    /\ lookup.occupancy = 37 .. 63
    /\ lookup.ret = 37

\* the piece kinds of a side and the number of its pieces on the bitboards
KindsOf(side) == IF side = White THEN P .. K ELSE p .. k

PieceCount(pos, side) ==
    Cardinality({pair \in KindsOf(side) \X Squares : pair[2] \in pos.bitboards[pair[1]]})

\* the pawn kind of a side
PawnOf(side) == IF side = White THEN P ELSE p

\* makeMove has applied an en-passant move
AppliedEnPassant == Applied /\ getEp(last.move) # 0

\* C26: makeMove of a move with the en-passant flag removes exactly one
\* opponent pawn and no other opponent piece: the opponent has one piece
\* less, its occupancy one bit less, and the mover has as many pieces as
\* before
C26_EnPassantRemovesOnePawn ==
    AppliedEnPassant =>
        LET mover == last.before.sideToMove
            them == Opponent(mover)
        IN /\ bitboards[PawnOf(them)] \subseteq last.before.bitboards[PawnOf(them)]
           /\ Cardinality(last.before.bitboards[PawnOf(them)] \ bitboards[PawnOf(them)]) = 1
           /\ \A kind \in KindsOf(them) \ {PawnOf(them)} :
                 bitboards[kind] = last.before.bitboards[kind]
           /\ PieceCount(Position, them) = PieceCount(last.before, them) - 1
           /\ Cardinality(occupancies[them]) = Cardinality(last.before.occupancies[them]) - 1
           /\ PieceCount(Position, mover) = PieceCount(last.before, mover)

\* the white pawn on e5 has taken the black pawn on d5 en passant: Black
\* went from four pieces to three
C26_Witness ==
    /\ AppliedEnPassant /\ last.ret = 1
    /\ last.move = encodeMove(28, 19, P, 0, 1, 0, 1, 0)
    /\ PieceCount(last.before, Black) = PieceCount(Position, Black) + 1
    /\ 27 \in last.before.bitboards[p] /\ 27 \notin bitboards[p]

\* the squares makeMove cleared in the pawn bitboard and in the occupancy
\* of the side that did not move
ClearedPawns == last.before.bitboards[PawnOf(sideToMove)] \ bitboards[PawnOf(sideToMove)]

ClearedOccupancy == last.before.occupancies[sideToMove] \ occupancies[sideToMove]

\* C27 as stated: the opponent pawn an en-passant move with target t clears,
\* and the bit cleared in the opponent occupancy, is at t - 8 when the
\* captor is white and at t + 8 when the captor is black
C27_VictimSquareAsStated ==
    AppliedEnPassant =>
        LET victim == IF last.before.sideToMove = White
                      THEN getMoveTarget(last.move) - 8
                      ELSE getMoveTarget(last.move) + 8
        IN ClearedPawns = {victim} /\ ClearedOccupancy = {victim}

\* C27, amended: with a8 = 0 and h1 = 63 the opponent pawn an en-passant
\* move with target t clears, and the bit cleared in the opponent occupancy,
\* is at t + 8 when the captor is white and at t - 8 when the captor is
\* black: the square behind the target as the captor sees it
C27_VictimSquare ==
    AppliedEnPassant =>
        LET victim == IF last.before.sideToMove = White
                      THEN getMoveTarget(last.move) + 8
                      ELSE getMoveTarget(last.move) - 8
        IN ClearedPawns = {victim} /\ ClearedOccupancy = {victim}

\* the black pawn on e4 has taken en passant on d3 (43) and the white pawn
\* on d4 (35) is gone from its bitboard and from White's occupancy
C27_Witness ==
    /\ AppliedEnPassant
    /\ last.before.sideToMove = Black
    /\ getMoveTarget(last.move) = 43
    /\ ClearedPawns = {35} /\ ClearedOccupancy = {35}

\* C28: after makeMove(m, AllMoves) epsq is target + 8 if m is a white
\* double pawn push, target - 8 if m is a black double pawn push, and NoSq
\* for every move without the double-push flag, whatever epsq was before
C28_EpSquareAfterMake ==
    last.op = "make" /\ last.flag = AllMoves =>
        epsq = IF getDoublePush(last.move) = 0 THEN NoSq
               ELSE IF last.before.sideToMove = White THEN getMoveTarget(last.move) + 8
               ELSE getMoveTarget(last.move) - 8

\* with the en-passant square on d6, the white pawn has gone from g2 to g4
\* and the en-passant square is g3 (46)
C28_Witness ==
    /\ last.op = "make" /\ last.flag = AllMoves
    /\ last.before.epsq = 19
    /\ last.move = encodeMove(54, 38, P, 0, 0, 1, 0, 0)
    /\ epsq = 46

\* the kind of the opponent piece standing on the square before the call
StoodOn(square) ==
    CHOOSE kind \in KindsOf(Opponent(last.before.sideToMove)) \cup {NoPiece} :
        IF kind = NoPiece
        THEN \A other \in KindsOf(Opponent(last.before.sideToMove)) :
                 square \notin last.before.bitboards[other]
        ELSE square \in last.before.bitboards[kind]

\* C29: after makeMove of a move with the capture flag, capturedPiece of the
\* current state-history entry is the kind of the opponent piece the move
\* removed: the piece that stood on the target for an ordinary or promotion
\* capture, the opponent pawn for an en-passant capture
C29_CapturedPieceRecorded ==
    Applied /\ getMoveCapture(last.move) # 0 =>
        states[st].capturedPiece =
            IF getEp(last.move) # 0 THEN PawnOf(Opponent(last.before.sideToMove))
            ELSE StoodOn(getMoveTarget(last.move))

\* the squares whose file differs from that of s by df and whose rank
\* differs by dr, for a pair <<df, dr>> of the set; a rank step of -1 is one
\* rank toward rank 8, the files are a = 0 to h = 7
Steps(s, pairs) ==
    {t \in Squares : <<FileOf(t) - FileOf(s), RowOf(t) - RowOf(s)>> \in pairs}

KnightSteps ==
    {pair \in (-2 .. 2) \X (-2 .. 2) : {Abs(pair[1]), Abs(pair[2])} = {1, 2}}

KingSteps == ((-1 .. 1) \X (-1 .. 1)) \ {<<0, 0>>}

\* C30: once filled, the leaper tables equal the geometric definition: for
\* every square s, KnightAttacks[s] is the set of squares at (file, rank)
\* distance (1, 2) or (2, 1), KingAttacks[s] the squares at Chebyshev
\* distance 1, PawnAttacks[White][s] the squares one rank toward rank 8 and
\* one file aside, PawnAttacks[Black][s] the same toward rank 1; nothing
\* wraps round the a and h files or lies beyond the first and last rank
C30_LeaperGeometry ==
    leapers # ZeroLeapers =>
        \A s \in Squares :
            /\ leapers.KnightAttacks[s] = Steps(s, KnightSteps)
            /\ leapers.KingAttacks[s] = Steps(s, KingSteps)
            /\ leapers.PawnAttacks[White][s] = Steps(s, {<<-1, -1>>, <<1, -1>>})
            /\ leapers.PawnAttacks[Black][s] = Steps(s, {<<-1, 1>>, <<1, 1>>})
            /\ Cardinality(leapers.PawnAttacks[White][s]) <= 2
            /\ Cardinality(leapers.PawnAttacks[Black][s]) <= 2

\* after the tables were filled the king on h1 was looked up: it attacks
\* g1, g2 and h2 and nothing on the a file; the white pawn on a2 attacks b3
\* only, the black pawn on h7 g6 only, and a white pawn on the last rank
\* nothing
C30_Witness ==
    /\ leapers # ZeroLeapers
    /\ lookup.kind = "king" /\ lookup.square = 63 /\ lookup.attacks = {54, 55, 62}
    /\ leapers.PawnAttacks[White][48] = {41}
    /\ leapers.PawnAttacks[Black][15] = {22}
    /\ leapers.PawnAttacks[White][3] = {}
    /\ leapers.KnightAttacks[0] = {10, 17}

\* pawn < knight < bishop < rook < queen < king, for both colours
ValueRank(piece) == piece % 6

\* the opponent piece standing on the square, NoPiece on an empty square
VictimOn(square) ==
    LET there == {kind \in KindsOf(Opponent(sideToMove)) : square \in bitboards[kind]}
    IN IF there = {} THEN NoPiece ELSE CHOOSE kind \in there : TRUE

\* the captures of the generated list that are not the PV move and land on
\* an opponent piece
OrdinaryCaptures ==
    {MoveList[count] : count \in 1 .. Len(MoveList)} \cap
    {move \in {MoveList[count] : count \in 1 .. Len(MoveList)} :
        /\ getMoveCapture(move) # 0
        /\ move # pv_table[ply]
        /\ VictimOn(getMoveTarget(move)) # NoPiece}

\* C31: for a capture that is not the PV move scoreMove returns 10000 +
\* mvv_lva[moving piece][opponent piece on the target]; of two such
\* captures the one with the more valuable victim (pawn < knight < bishop <
\* rook < queen < king) scores strictly higher whatever the attackers, and
\* with victims of one kind the one with the less valuable attacker scores
\* strictly higher; the table is the same for both colours
C31_MvvLva ==
    /\ scored.op = "scoreMove" /\ scored.move \in OrdinaryCaptures =>
         scored.ret = 10000 + mvv_lva[getMovePiece(scored.move)]
                                     [VictimOn(getMoveTarget(scored.move))]
    /\ \A one \in OrdinaryCaptures, two \in OrdinaryCaptures :
         LET victim1 == ValueRank(VictimOn(getMoveTarget(one)))
             victim2 == ValueRank(VictimOn(getMoveTarget(two)))
             attacker1 == ValueRank(getMovePiece(one))
             attacker2 == ValueRank(getMovePiece(two))
         IN /\ victim1 > victim2 => scoreMove(one).ret > scoreMove(two).ret
            /\ victim1 = victim2 /\ attacker1 < attacker2 =>
                  scoreMove(one).ret > scoreMove(two).ret
    /\ \A attacker1 \in Pieces, attacker2 \in Pieces, victim1 \in Pieces, victim2 \in Pieces :
         /\ ValueRank(victim1) > ValueRank(victim2) =>
               mvv_lva[attacker1][victim1] > mvv_lva[attacker2][victim2]
         /\ ValueRank(victim1) = ValueRank(victim2)
               /\ ValueRank(attacker1) < ValueRank(attacker2) =>
               mvv_lva[attacker1][victim1] > mvv_lva[attacker2][victim2]
         /\ mvv_lva[attacker1][victim1] = mvv_lva[(attacker1 + 6) % 12][(victim1 + 6) % 12]

\* with PV scoring off, the capture of the queen on d5 by the rook on d1 was
\* scored 10502: below pawn takes queen and above queen takes rook, which
\* are in the list
C31_Witness ==
    /\ scored.op = "scoreMove" /\ ~scored.was
    /\ sideToMove = White
    /\ scored.move = encodeMove(59, 27, R, 0, 1, 0, 0, 0)
    /\ scored.ret = 10502
    /\ {encodeMove(36, 27, P, 0, 1, 0, 0, 0), encodeMove(24, 0, Q, 0, 1, 0, 0, 0)}
          \subseteq OrdinaryCaptures
    /\ scoreMove(encodeMove(36, 27, P, 0, 1, 0, 0, 0)).ret = 10505
    /\ scoreMove(encodeMove(24, 0, Q, 0, 1, 0, 0, 0)).ret = 10401

\* C32: whatever the history table holds, a quiet move without promotion
\* that is neither the PV move nor a killer of the ply scores strictly less
\* than 8000, below every killer, promotion, capture and the PV move
C32_BucketPriority ==
    /\ scored.op = "scoreMove"
    /\ getMoveCapture(scored.move) = 0 /\ getPromo(scored.move) = 0
    /\ scored.move # pv_table[ply]
    /\ scored.move \notin {killers[0][ply], killers[1][ply]}
    => scored.ret < 8000

\* C33: a call dperft(depth) with depth >= 1 runs to completion: neither the
\* assertion on depth at the start of dperft nor the one at the start of a
\* perft call under it ends the program
C33_DperftAssertions ==
    run.fn = "dperft" /\ run.depth >= 1 => run.status \in {"running", "returned"}

\* what saveBoard() copies, taken from a position
BoardOf(pos) == <<pos.bitboards, pos.occupancies, pos.sideToMove, pos.epsq, pos.castle>>

\* the board the call at level `level` of the stack was entered with: that
\* of the outermost call, and below it the board after the move its caller
\* is trying, made on the board the caller copied before it
EnteredWith(level) ==
    IF level = 1 THEN BoardOf(last.pre)
    ELSE LET caller == stack[level - 1]
             saved == [Position EXCEPT !.bitboards = caller.copy.bitboards,
                                       !.occupancies = caller.copy.occupancies,
                                       !.sideToMove = caller.copy.sideToMove,
                                       !.epsq = caller.copy.epsq,
                                       !.castle = caller.copy.castle]
         IN BoardOf(MakeApplied(saved, caller.moves[caller.move_count + 1]))

\* C34: in perft and dperft, saveBoard(), a makeMove (accepted or rejected),
\* a nested perft and takeBack() leave the piece bitboards, the occupancies,
\* the side to move, the en-passant square and the castling rights as they
\* were at saveBoard(): between two rounds of its loop every call has the
\* board it was entered with, which is the board a call waiting for a
\* nested perft has copied, and perft(d) and dperft(d) return with the
\* board they were entered with
C34_SnapshotRestore ==
    /\ Running =>
         /\ BoardOf(Position) = EnteredWith(Len(stack))
         /\ \A level \in 1 .. Len(stack) - 1 :
               BoardOf(stack[level].copy) = EnteredWith(level)
    /\ run.status = "returned" => BoardOf(Position) = BoardOf(last.pre)

\* dperft(2) has returned in the position with the en-passant square on d6,
\* where makeMove rejects a move of the king and accepts captures, with the
\* board it was entered with
C34_Witness ==
    /\ Returned("dperft") /\ run.depth = 2
    /\ last.pre = SetUp(WhitePawnPlacement, White, 19, 0, MaxStates)
    /\ BoardOf(Position) = BoardOf(last.pre)
    /\ epsq = 19
    /\ \E count \in 1 .. Len(GenerateMoveList(last.pre)) :
          MakeAllMoves(last.pre, GenerateMoveList(last.pre)[count]).ret = 0
    /\ Len(output) > 1 /\ nodes > 0

\* C35: whatever makes and undos went before, captures among them, making
\* and then undoing a move whose capture flag is clear adds no piece to the
\* board: after undoMove every piece bitboard of the opponent is what it
\* was before makeMove, and so is the number of pieces on the board
C35_NoStaleCapture ==
    last.op = "undo" /\ getMoveCapture(last.move) = 0 =>
        LET them == Opponent(last.pre.sideToMove) IN
        /\ \A kind \in KindsOf(them) : bitboards[kind] = last.pre.bitboards[kind]
        /\ PieceCount(Position, White) + PieceCount(Position, Black)
             = PieceCount(last.pre, White) + PieceCount(last.pre, Black)

\* the PV move of the ply is in the generated list
PVMoveListed == \E count \in 1 .. Len(MoveList) : MoveList[count] = pv_table[ply]

\* C36: whatever scorePV and followPV were before, after enablePV_scoring
\* has returned both are true if the PV move of the ply is in the list and
\* both are false if it is not
C36_PVFlags ==
    scored.op = "enablePV_scoring" =>
        IF PVMoveListed THEN scorePV /\ followPV ELSE ~scorePV /\ ~followPV

====
